---- MODULE Spec2Model ----
(***************************************************************************)
(* The double-entry ledger of the Transaction model (server/models/        *)
(* Transaction.js): createDoubleEntry, createManyDoubleEntry,              *)
(* createFeesOnTopTransaction, createFromPayload and creditHost, with the  *)
(* rows they persist through Transaction.create.                           *)
(*                                                                         *)
(* Numbers.  JavaScript numbers are modelled exactly: a rate is a pair     *)
(* <<n, d>> standing for n/d (d > 0), and Math.round is Round below.  The  *)
(* two amounts of a row that the code can leave fractional (amount and     *)
(* netAmountInCollectiveCurrency) are numerators over the row's field      *)
(* den; den = 1 wherever the code handles integers only.                   *)
(***************************************************************************)
EXTENDS Integers, Sequences, FiniteSets, TLC

\* Number of top-level calls one behaviour makes.
MaxCalls == 2

Null == "null"
CREDIT == "CREDIT"
DEBIT == "DEBIT"

----------------------------------------------------------------------------
(* Arithmetic *)

One == <<1, 1>>
\* A rate that is unset (undefined or 0): falsy in `x || 1`.
NoRate == <<0, 1>>

Abs(x) == IF x < 0 THEN -x ELSE x

\* Math.round(n/d) for d > 0: the nearest integer, halves towards +infinity.
Round(n, d) == (2 * n + d) \div (2 * d)

\* n/d is an integer
Divides(d, n) == n % d = 0

\* lib/math toNegative: a fee is stored as a number <= 0
ToNegative(x) == IF x > 0 THEN -x ELSE x

\* lib/payments calcFee(amount, fee): fee is a percentage
calcFee(amount, fee) == Round(amount * fee, 100)

----------------------------------------------------------------------------
(* The accounts (models.Collective rows) the calls refer to *)

Collective ==
  [ U1 |-> [id |-> "U1", isActive |-> TRUE,  currency |-> "USD", HostCollectiveId |-> "H1", isHostAccount |-> FALSE],
    U2 |-> [id |-> "U2", isActive |-> FALSE, currency |-> "USD", HostCollectiveId |-> Null, isHostAccount |-> FALSE],
    U3 |-> [id |-> "U3", isActive |-> TRUE,  currency |-> "EUR", HostCollectiveId |-> "H2", isHostAccount |-> FALSE],
    C1 |-> [id |-> "C1", isActive |-> TRUE,  currency |-> "USD", HostCollectiveId |-> "H1", isHostAccount |-> FALSE],
    C2 |-> [id |-> "C2", isActive |-> TRUE,  currency |-> "EUR", HostCollectiveId |-> "H1", isHostAccount |-> FALSE],
    C3 |-> [id |-> "C3", isActive |-> FALSE, currency |-> "USD", HostCollectiveId |-> Null, isHostAccount |-> FALSE],
    H1 |-> [id |-> "H1", isActive |-> TRUE,  currency |-> "USD", HostCollectiveId |-> "H1", isHostAccount |-> TRUE] ]

\* The rates the FX resolver may answer for a pair of different currencies
\* at the time of one call.
Fx1 == [USDEUR |-> <<7, 8>>,  EURUSD |-> <<3, 2>>]
Fx2 == [USDEUR |-> <<3, 10>>, EURUSD |-> <<11, 10>>]

\* The table recorded for a call that crosses no currencies
NoFx == [USDEUR |-> One, EURUSD |-> One]

\* lib/currency getFxRate(fromCurrency, toCurrency, date), answering from the
\* table fx in force at that date
getFxRate(fx, fromCurrency, toCurrency) ==
  IF fromCurrency = toCurrency THEN One
  ELSE IF fromCurrency = "USD" THEN fx.USDEUR ELSE fx.EURUSD

----------------------------------------------------------------------------
(* Transaction.createDoubleEntry *)

TypeOf(amount) == IF amount > 0 THEN CREDIT ELSE DEBIT

\* lines 404-412: the primary row, with the group uuid
PrimaryTransaction(transaction, uuid) ==
  LET net == IF transaction.netAmountInCollectiveCurrency # 0
             THEN transaction.netAmountInCollectiveCurrency
             ELSE transaction.amount
      rate == IF transaction.hostCurrencyFxRate[1] # 0
              THEN transaction.hostCurrencyFxRate
              ELSE One
  IN [transaction EXCEPT
        !.type = TypeOf(transaction.amount),
        !.netAmountInCollectiveCurrency = net,
        !.TransactionGroup = uuid,
        !.hostCurrencyFxRate = rate,
        !.amountInHostCurrency =
           Round(transaction.amountInHostCurrency, 1)]

\* lines 417-426: the opposite row before the isActive branch
OppositeBase(transaction) ==
  [transaction EXCEPT
     !.type = TypeOf(-transaction.amount),
     !.FromCollectiveId = transaction.CollectiveId,
     !.CollectiveId = transaction.FromCollectiveId,
     !.amountInHostCurrency =
        Round(-transaction.netAmountInCollectiveCurrency * transaction.hostCurrencyFxRate[1],
              transaction.den * transaction.hostCurrencyFxRate[2])]

\* A faulty OppositeInactive: amount and net amount are negated in place,
\* not exchanged
OppositeInactiveNotExchanged(transaction) ==
  [OppositeBase(transaction) EXCEPT
     !.HostCollectiveId = Null,
     !.amount = -transaction.amount,
     !.netAmountInCollectiveCurrency = -transaction.netAmountInCollectiveCurrency]

\* A faulty OppositeInactive: the host of the primary row is kept
OppositeInactiveKeepsHost(transaction) ==
  [OppositeBase(transaction) EXCEPT
     !.amount = -transaction.netAmountInCollectiveCurrency,
     !.netAmountInCollectiveCurrency = -transaction.amount]

\* lines 428-433: fromCollective is not active
OppositeInactive(transaction) ==
  [OppositeBase(transaction) EXCEPT
     !.HostCollectiveId = Null,
     !.amount = -transaction.netAmountInCollectiveCurrency,
     !.netAmountInCollectiveCurrency = -transaction.amount]

\* A faulty OppositeActive: amount and net amount are converted in place,
\* not exchanged
OppositeActiveNotExchanged(transaction, fromCollective, oppositeTransactionCurrencyFxRate) ==
  [OppositeBase(transaction) EXCEPT
     !.HostCollectiveId = fromCollective.HostCollectiveId,
     !.currency = fromCollective.currency,
     !.amount = -Round(transaction.amount * oppositeTransactionCurrencyFxRate[1],
                       transaction.den * oppositeTransactionCurrencyFxRate[2]),
     !.netAmountInCollectiveCurrency =
        -Round(transaction.netAmountInCollectiveCurrency * oppositeTransactionCurrencyFxRate[1],
               transaction.den * oppositeTransactionCurrencyFxRate[2]),
     !.den = 1,
     !.data = [transaction.data EXCEPT
                 !.oppositeTransactionCurrencyFxRate = oppositeTransactionCurrencyFxRate]]

\* A faulty OppositeActive: data holds the rate alone, the keys of the
\* primary's data are dropped
OppositeActiveDropsData(transaction, fromCollective, oppositeTransactionCurrencyFxRate) ==
  [OppositeBase(transaction) EXCEPT
     !.HostCollectiveId = fromCollective.HostCollectiveId,
     !.currency = fromCollective.currency,
     !.amount = -Round(transaction.netAmountInCollectiveCurrency * oppositeTransactionCurrencyFxRate[1],
                       transaction.den * oppositeTransactionCurrencyFxRate[2]),
     !.netAmountInCollectiveCurrency =
        -Round(transaction.amount * oppositeTransactionCurrencyFxRate[1],
               transaction.den * oppositeTransactionCurrencyFxRate[2]),
     !.den = 1,
     !.data = [isFeesOnTop |-> FALSE, note |-> "",
               oppositeTransactionCurrencyFxRate |-> oppositeTransactionCurrencyFxRate,
               hostToPlatformFxRate |-> NoRate]]

\* lines 435-447: fromCollective is active
OppositeActive(transaction, fromCollective, oppositeTransactionCurrencyFxRate) ==
  [OppositeBase(transaction) EXCEPT
     !.HostCollectiveId = fromCollective.HostCollectiveId,
     !.currency = fromCollective.currency,
     !.amount = -Round(transaction.netAmountInCollectiveCurrency * oppositeTransactionCurrencyFxRate[1],
                       transaction.den * oppositeTransactionCurrencyFxRate[2]),
     !.netAmountInCollectiveCurrency =
        -Round(transaction.amount * oppositeTransactionCurrencyFxRate[1],
               transaction.den * oppositeTransactionCurrencyFxRate[2]),
     !.den = 1,
     !.data = [transaction.data EXCEPT
                 !.oppositeTransactionCurrencyFxRate = oppositeTransactionCurrencyFxRate]]

\* lines 415-448
OppositeTransaction(transaction, fx) ==
  LET fromCollective == Collective[transaction.FromCollectiveId]
  IN IF ~fromCollective.isActive
     THEN OppositeInactive(transaction)
     ELSE OppositeActive(transaction, fromCollective,
                         getFxRate(fx, transaction.currency, fromCollective.currency))

\* A faulty DebitFirst: the primary row is always created first
PrimaryFirst(transaction, oppositeTransaction) ==
  <<transaction, oppositeTransaction>>

\* A faulty PrimaryIndex: the first result is always returned
FirstIndex(transaction) == 0

\* lines 454-464: the order of the two creates and the place of the primary
DebitFirst(transaction, oppositeTransaction) ==
  IF transaction.amount < 0
  THEN <<transaction, oppositeTransaction>>
  ELSE <<oppositeTransaction, transaction>>

PrimaryIndex(transaction) == IF transaction.amount < 0 THEN 0 ELSE 1

----------------------------------------------------------------------------
(* Transaction.createFeesOnTopTransaction and Transaction.createFromPayload *)

\* constants/transactions FEES_ON_TOP_TRANSACTION_PROPERTIES
PlatformCollectiveId == "OC"
PlatformHostCollectiveId == "OCI"
PlatformCurrency == "USD"

\* A faulty FeesOnTopRejected: the platform fee is tested first, and a
\* transaction that is not flagged is only rejected when it has none
FeesOnTopRejectedWithoutFee(transaction) ==
  ~transaction.data.isFeesOnTop /\ transaction.platformFeeInHostCurrency = 0

\* lines 469-470: createFeesOnTopTransaction throws
FeesOnTopRejected(transaction) == ~transaction.data.isFeesOnTop

\* lines 471-472: createFeesOnTopTransaction returns at once
FeesOnTopSkipped(transaction) == transaction.platformFeeInHostCurrency = 0

\* line 547: the platform fee is set and not 0
HasFeesOnTop(transaction) ==
  transaction.data.isFeesOnTop /\ transaction.platformFeeInHostCurrency # 0

\* lines 475-480: the share of the processor fee that the donation bears
DonationProcessorFee(transaction) ==
  ToNegative(Round(transaction.paymentProcessorFeeInHostCurrency
                     * Abs(transaction.platformFeeInHostCurrency),
                   Abs(transaction.amountInHostCurrency)))

\* lines 481-503: the donation to the platform
DonationTransaction(transaction, fx) ==
  LET platformFee == Abs(transaction.platformFeeInHostCurrency)
      paymentProcessorFeeInHostCurrency == DonationProcessorFee(transaction)
      platformCurrencyFxRate == getFxRate(fx, transaction.currency, PlatformCurrency)
  IN [transaction EXCEPT
        !.CollectiveId = PlatformCollectiveId,
        !.HostCollectiveId = PlatformHostCollectiveId,
        !.hostCurrency = PlatformCurrency,
        !.currency = PlatformCurrency,
        !.amount = Round(platformFee * platformCurrencyFxRate[1], platformCurrencyFxRate[2]),
        !.den = 1,
        !.amountInHostCurrency =
           Round(platformFee * platformCurrencyFxRate[1], platformCurrencyFxRate[2]),
        !.platformFeeInHostCurrency = 0,
        !.hostFeeInHostCurrency = 0,
        !.paymentProcessorFeeInHostCurrency =
           Round(paymentProcessorFeeInHostCurrency * platformCurrencyFxRate[1],
                 platformCurrencyFxRate[2]),
        !.netAmountInCollectiveCurrency =
           Round((platformFee + paymentProcessorFeeInHostCurrency) * platformCurrencyFxRate[1],
                 platformCurrencyFxRate[2]),
        !.hostCurrencyFxRate = One,
        !.data = [transaction.data EXCEPT
                    !.hostToPlatformFxRate =
                       getFxRate(fx, transaction.hostCurrency, PlatformCurrency)]]

\* A faulty MainTransaction: the platform fee stays on the main transaction
MainTransactionKeepsPlatformFee(transaction) ==
  LET rate == IF transaction.hostCurrencyFxRate[1] # 0
              THEN transaction.hostCurrencyFxRate
              ELSE One
      num == transaction.platformFeeInHostCurrency * rate[2]
      whole == Divides(rate[1], num)
  IN [transaction EXCEPT
        !.paymentProcessorFeeInHostCurrency =
           transaction.paymentProcessorFeeInHostCurrency - DonationProcessorFee(transaction),
        !.amountInHostCurrency =
           transaction.amountInHostCurrency + transaction.platformFeeInHostCurrency,
        !.amount = IF whole THEN transaction.amount + (num \div rate[1])
                   ELSE transaction.amount * rate[1] + num,
        !.netAmountInCollectiveCurrency =
           IF whole THEN transaction.netAmountInCollectiveCurrency
           ELSE transaction.netAmountInCollectiveCurrency * rate[1],
        !.den = IF whole THEN 1 ELSE rate[1]]

\* lines 507-515: the main transaction without the platform fee.  The
\* quotient platformFee / hostCurrencyFxRate is kept exact: when it is not an
\* integer the amounts of the row become numerators over den.
MainTransaction(transaction) ==
  LET rate == IF transaction.hostCurrencyFxRate[1] # 0
              THEN transaction.hostCurrencyFxRate
              ELSE One
      num == transaction.platformFeeInHostCurrency * rate[2]
      whole == Divides(rate[1], num)
  IN [transaction EXCEPT
        !.paymentProcessorFeeInHostCurrency =
           transaction.paymentProcessorFeeInHostCurrency - DonationProcessorFee(transaction),
        !.amountInHostCurrency =
           transaction.amountInHostCurrency + transaction.platformFeeInHostCurrency,
        !.amount = IF whole THEN transaction.amount + (num \div rate[1])
                   ELSE transaction.amount * rate[1] + num,
        !.netAmountInCollectiveCurrency =
           IF whole THEN transaction.netAmountInCollectiveCurrency
           ELSE transaction.netAmountInCollectiveCurrency * rate[1],
        !.den = IF whole THEN 1 ELSE rate[1],
        !.platformFeeInHostCurrency = 0]

\* lines 529-530: the host of the collective
HostOf(CollectiveId) ==
  IF Collective[CollectiveId].isHostAccount
  THEN Collective[CollectiveId].id
  ELSE Collective[CollectiveId].HostCollectiveId

\* A faulty PayloadRejected: the host is not looked at
PayloadRejectedOnAmountOnly(payload) ==
  payload.transaction.amount = 0

\* lines 525-533: the payload is rejected
PayloadRejected(payload) ==
  \/ payload.transaction.amount = 0
  \/ HostOf(payload.CollectiveId) = Null /\ payload.transaction.HostCollectiveId = Null

\* A faulty PayloadTransaction: the fees keep the sign the caller gave them
PayloadTransactionKeepsSigns(payload) ==
  LET transaction == payload.transaction
      HostCollectiveId == HostOf(payload.CollectiveId)
  IN [transaction EXCEPT
        !.HostCollectiveId = IF HostCollectiveId # Null THEN HostCollectiveId
                             ELSE transaction.HostCollectiveId,
        !.FromCollectiveId = payload.FromCollectiveId,
        !.CollectiveId = payload.CollectiveId,
        !.type = TypeOf(transaction.amount)]

\* lines 534-544
PayloadTransaction(payload) ==
  LET transaction == payload.transaction
      HostCollectiveId == HostOf(payload.CollectiveId)
  IN [transaction EXCEPT
        !.HostCollectiveId = IF HostCollectiveId # Null THEN HostCollectiveId
                             ELSE transaction.HostCollectiveId,
        !.FromCollectiveId = payload.FromCollectiveId,
        !.CollectiveId = payload.CollectiveId,
        !.type = TypeOf(transaction.amount),
        !.hostFeeInHostCurrency = ToNegative(transaction.hostFeeInHostCurrency),
        !.platformFeeInHostCurrency = ToNegative(transaction.platformFeeInHostCurrency),
        !.taxAmount = ToNegative(transaction.taxAmount),
        !.paymentProcessorFeeInHostCurrency =
           ToNegative(transaction.paymentProcessorFeeInHostCurrency)]

\* lines 551-564: the net amount of a donation
WithNetAmount(transaction) ==
  LET fees == transaction.taxAmount + transaction.platformFeeInHostCurrency
              + transaction.hostFeeInHostCurrency
              + transaction.paymentProcessorFeeInHostCurrency
      net == transaction.amountInHostCurrency + fees
      rate == transaction.hostCurrencyFxRate
  IN IF transaction.amount > 0
     THEN [transaction EXCEPT
             !.netAmountInCollectiveCurrency =
                transaction.den * (IF rate[1] # 0 THEN Round(net * rate[2], rate[1]) ELSE net)]
     ELSE transaction

----------------------------------------------------------------------------
(* Transaction.creditHost *)

\* lines 615-637
CreditHostPayload(order, collective, uuid) ==
  LET amount == order.totalAmount
      platformFee == calcFee(order.totalAmount, order.platformFeePercent)
  IN [type |-> CREDIT,
      amount |-> amount,
      den |-> 1,
      currency |-> order.currency,
      CollectiveId |-> order.CollectiveId,
      FromCollectiveId |-> order.CollectiveId,
      platformFeeInHostCurrency |-> -platformFee,
      hostFeeInHostCurrency |-> 0,
      paymentProcessorFeeInHostCurrency |-> 0,
      taxAmount |-> 0,
      HostCollectiveId |-> collective.id,
      hostCurrency |-> collective.currency,
      hostCurrencyFxRate |-> One,
      amountInHostCurrency |-> amount,
      netAmountInCollectiveCurrency |-> amount - platformFee,
      data |-> [isFeesOnTop |-> FALSE, note |-> "order",
                oppositeTransactionCurrencyFxRate |-> NoRate,
                hostToPlatformFxRate |-> NoRate],
      TransactionGroup |-> uuid]

----------------------------------------------------------------------------
(* State *)

VARIABLES
  ledger,   \* the Transactions table: the rows persisted so far, in order of
            \* creation; the id of a row is its place in the sequence
  calls,    \* the calls of this behaviour, by call number: the operation, the
            \* input as it was given, the rows still to create and the ids of
            \* the rows created, and for createFeesOnTopTransaction the
            \* argument object as the call has left it and the value returned
            \* (NoTransaction: undefined)
  uuids,    \* how many uuids uuid() has generated
  expenses, \* the Expenses table: the id of an expense is its place
  funds     \* what the collective of the expenses held before any of them

vars == <<ledger, calls, uuids, expenses, funds>>

\* The state of the expense mutations (graphql/v1/mutations/expenses)
expenseVars == <<expenses, funds>>

CallIds == 1..MaxCalls

NoTransaction == [type |-> "none"]

\* A call that has not been made
IdleCall ==
  [op |-> "none", pc |-> "idle", input |-> NoTransaction, fx |-> NoFx,
   transactions |-> <<>>, results |-> <<>>, index |-> 0,
   main |-> NoTransaction, groups |-> {}, fxLookups |-> 0, returned |-> 0,
   argument |-> NoTransaction, value |-> NoTransaction]

Running(c) == calls[c].pc \in {"creating"}

\* No call is in progress
Quiet == \A c \in CallIds : ~Running(c)

\* Calls are numbered in the order they are made
NextCall(c) ==
  /\ calls[c].pc = "idle"
  /\ \A d \in CallIds : d < c => calls[d].pc # "idle"

\* createDoubleEntry up to its first Transaction.create (lines 404-464), as
\* part of call `call`: the rows to create, in order, the place of the
\* primary among them, and the number of getFxRate lookups made (line 435)
EnterDoubleEntry(call, transaction, uuid) ==
  LET primary == PrimaryTransaction(transaction, uuid)
      opposite == OppositeTransaction(primary, call.fx)
  IN [call EXCEPT
        !.pc = "creating",
        !.transactions = DebitFirst(primary, opposite),
        !.results = <<>>,
        !.index = PrimaryIndex(primary),
        !.groups = call.groups \cup {uuid},
        !.fxLookups = IF Collective[transaction.FromCollectiveId].isActive THEN 1 ELSE 0]

----------------------------------------------------------------------------
(* Inputs *)

Data == [isFeesOnTop |-> FALSE, note |-> "order",
         oppositeTransactionCurrencyFxRate |-> NoRate,
         hostToPlatformFxRate |-> NoRate]

\* <<amount, netAmountInCollectiveCurrency (0: not set), paymentProcessorFeeInHostCurrency>>
Amounts ==
  { <<-1000, 0, -100>>, <<-1000, -1100, -100>>, <<1000, 900, -100>>,
    <<-1, 0, 0>>, <<0, 0, 0>> }

\* <<currency, hostCurrencyFxRate (NoRate: not set)>> of a collective hosted in USD
USD == <<"USD", NoRate>>
EUR == <<"EUR", <<3, 2>> >>

\* <<currency and rate, FromCollectiveId, the rates at the time of the call>>
Parties ==
  { <<USD, "U1", NoFx>>, <<USD, "U2", NoFx>>, <<USD, "U3", Fx1>>, <<EUR, "U1", Fx1>> }

\* The transactions given to createDoubleEntry; an amount of 0 is tried with
\* one fromCollective only
Intents ==
  { <<a, p>> \in Amounts \X Parties : a[1] # 0 \/ p[2] = "U2" }

Transaction(a, cur, FromCollectiveId, CollectiveId) ==
  [type |-> "none",
   amount |-> a[1],
   den |-> 1,
   currency |-> cur[1],
   FromCollectiveId |-> FromCollectiveId,
   CollectiveId |-> CollectiveId,
   HostCollectiveId |-> "H1",
   hostCurrency |-> "USD",
   hostCurrencyFxRate |-> cur[2],
   amountInHostCurrency |->
      IF cur[2][1] # 0 THEN Round(a[1] * cur[2][1], cur[2][2]) ELSE a[1],
   platformFeeInHostCurrency |-> 0,
   hostFeeInHostCurrency |-> 0,
   paymentProcessorFeeInHostCurrency |-> a[3],
   taxAmount |-> 0,
   netAmountInCollectiveCurrency |-> a[2],
   data |-> Data,
   TransactionGroup |-> 0]

\* createManyDoubleEntry: the amounts of its transactions, and the
\* defaultValues it copies into each of them
ManyAmounts == { <<-1000, -1100, -100>>, <<1000, 900, -100>> }

DefaultValues == { [CollectiveId |-> "C1", HostCollectiveId |-> "H1"] }

\* lines 294-296 and 303-305
WithDefaults(transaction, defaultValues) ==
  [attr \in DOMAIN transaction |->
     IF attr \in DOMAIN defaultValues THEN defaultValues[attr] ELSE transaction[attr]]

\* creditHost: the orders of a host that adds funds to itself
Orders ==
  [totalAmount : {2550}, platformFeePercent : {5},
   currency : {"USD"}, CollectiveId : {"H1"}]

\* createFromPayload: <<amount, netAmountInCollectiveCurrency,
\* paymentProcessorFeeInHostCurrency, platformFeeInHostCurrency,
\* hostFeeInHostCurrency>>, the fees with the sign the caller gives them
Donation == <<1000, 0, 31, 100, 50>>
SmallDonation == <<25, 0, -31, 0, 0>>
Payout == <<-1000, -1100, -100, 0, 0>>
\* A donation whose fees consume the whole amount
ConsumedDonation == <<1000, 0, 500, 300, 200>>
PayloadAmounts ==
  { Donation, SmallDonation, Payout, ConsumedDonation, <<0, 0, 0, 0, 0>> }

Payload(a, cur, isFeesOnTop, FromCollectiveId, CollectiveId) ==
  [FromCollectiveId |-> FromCollectiveId,
   CollectiveId |-> CollectiveId,
   transaction |->
     [Transaction(a, cur, "none", "none") EXCEPT
        !.platformFeeInHostCurrency = a[4],
        !.hostFeeInHostCurrency = a[5],
        !.HostCollectiveId = Null,
        !.data = [Data EXCEPT !.isFeesOnTop = isFeesOnTop]]]

\* <<payload, the rates at the time of the call>>; C3 has no host
Payloads ==
  { <<Payload(a, USD, FALSE, "U2", "C1"), NoFx>> : a \in PayloadAmounts }
  \cup { <<Payload(Donation, USD, TRUE, "U2", "C1"), NoFx>>,
         <<Payload(Donation, USD, TRUE, "U3", "C1"), Fx2>>,
         <<Payload(Donation, EUR, TRUE, "U2", "C1"), Fx1>>,
         <<Payload(Payout, USD, FALSE, "U2", "C3"), NoFx>>,
         <<Payload(Donation, USD, TRUE, "U2", "C3"), NoFx>>,
         <<Payload(<<0, 0, 31, 100, 50>>, USD, TRUE, "U2", "C1"), NoFx>> }

\* createFeesOnTopTransaction called on its own: transactions as
\* createFromPayload prepares them (lines 534-544), flagged or not, with a
\* platform fee or without
FeesOnTopTransactions ==
  { PayloadTransaction(Payload(a, USD, isFeesOnTop, "U2", "C1")) :
      a \in {Donation, <<1000, 0, 31, 0, 50>>}, isFeesOnTop \in BOOLEAN }

----------------------------------------------------------------------------
(* Actions *)
(*                                                                         *)
(* A call is entered in one step, up to its first Transaction.create: the  *)
(* awaits before it (findByPk, getFxRate) read tables that no action       *)
(* writes.  Each Transaction.create is a step of its own, which the store  *)
(* may fail; no call opens a store transaction, so a failed create takes   *)
(* nothing back.  Top-level calls follow one another; the two              *)
(* createDoubleEntry of a createManyDoubleEntry run concurrently, as        *)
(* Promise.map runs them.                                                   *)

Init ==
  /\ ledger = <<>>
  /\ calls = [c \in CallIds |-> IdleCall]
  /\ uuids = 0
  /\ expenses = <<>>
  /\ funds = 0

\* Transaction.createDoubleEntry(transaction), lines 403-464
CreateDoubleEntry(c) ==
  /\ NextCall(c)
  /\ Quiet
  /\ \E i \in Intents :
       LET p == i[2]
           transaction == Transaction(i[1], p[1], p[2], "C1")
           call == [IdleCall EXCEPT !.op = "createDoubleEntry",
                                    !.input = transaction, !.fx = p[3]]
       IN calls' = [calls EXCEPT ![c] = EnterDoubleEntry(call, transaction, uuids + 1)]
  /\ uuids' = uuids + 1
  /\ UNCHANGED <<ledger, expenseVars>>

\* One Transaction.create(t) of Promise.mapSeries (line 465) succeeds
TransactionCreate(c) ==
  /\ calls[c].pc = "creating"
  /\ calls[c].transactions # <<>>
  /\ ledger' = Append(ledger, Head(calls[c].transactions))
  /\ calls' = [calls EXCEPT ![c].transactions = Tail(@),
                            ![c].results = Append(@, Len(ledger) + 1)]
  /\ UNCHANGED <<uuids, expenseVars>>

\* One Transaction.create(t) fails: mapSeries rejects and creates no more
TransactionCreateFails(c) ==
  /\ calls[c].pc = "creating"
  /\ calls[c].transactions # <<>>
  /\ calls' = [calls EXCEPT ![c].pc = "failed"]
  /\ UNCHANGED <<ledger, uuids, expenseVars>>

\* .then(results => results[index]), line 465: the call returns the primary
ReturnPrimary(c) ==
  /\ calls[c].pc = "creating"
  /\ calls[c].transactions = <<>>
  /\ calls[c].main = NoTransaction
  /\ calls' = [calls EXCEPT ![c].pc = "done",
                            ![c].returned = calls[c].results[calls[c].index + 1]]
  /\ UNCHANGED <<ledger, uuids, expenseVars>>

\* Transaction.createManyDoubleEntry(transactions, defaultValues), lines
\* 301-308, for two transactions: Promise.map enters createDoubleEntry for
\* each of them, and their creates then run concurrently
CreateManyDoubleEntry(c) ==
  /\ NextCall(c)
  /\ c + 1 \in CallIds
  /\ Quiet
  /\ \E a1 \in ManyAmounts, a2 \in ManyAmounts, FromCollectiveId \in {"U2"},
        defaultValues \in DefaultValues :
       LET t1 == WithDefaults(Transaction(a1, USD, FromCollectiveId, "C2"),
                              defaultValues)
           t2 == WithDefaults(Transaction(a2, USD, FromCollectiveId, "C2"),
                              defaultValues)
           call1 == [IdleCall EXCEPT !.op = "createManyDoubleEntry", !.input = t1]
           call2 == [IdleCall EXCEPT !.op = "createManyDoubleEntry", !.input = t2]
       IN calls' = [calls EXCEPT ![c] = EnterDoubleEntry(call1, t1, uuids + 1),
                                 ![c + 1] = EnterDoubleEntry(call2, t2, uuids + 2)]
  /\ uuids' = uuids + 2
  /\ UNCHANGED <<ledger, expenseVars>>

\* Transaction.creditHost(order, collective), lines 613-640: one
\* Transaction.create, which succeeds or fails
CreditHost(c) ==
  /\ NextCall(c)
  /\ Quiet
  /\ \E order \in Orders, ok \in BOOLEAN :
       LET payload == CreditHostPayload(order, Collective[order.CollectiveId], uuids + 1)
       IN /\ ledger' = IF ok THEN Append(ledger, payload) ELSE ledger
          /\ calls' = [calls EXCEPT ![c] =
                         [IdleCall EXCEPT
                            !.op = "creditHost",
                            !.pc = IF ok THEN "done" ELSE "failed",
                            !.input = payload,
                            !.groups = {uuids + 1},
                            !.results = IF ok THEN <<Len(ledger) + 1>> ELSE <<>>,
                            !.returned = IF ok THEN Len(ledger) + 1 ELSE 0]]
  /\ uuids' = uuids + 1
  /\ UNCHANGED expenseVars

\* Transaction.createFromPayload(payload), lines 518-566, up to the first
\* Transaction.create
CreateFromPayload(c) ==
  /\ NextCall(c)
  /\ Quiet
  /\ \E p \in Payloads :
         LET payload == p[1]
             fx == p[2]
             call == [IdleCall EXCEPT
                        !.op = "createFromPayload",
                        !.input = [payload.transaction EXCEPT
                                     !.FromCollectiveId = payload.FromCollectiveId,
                                     !.CollectiveId = payload.CollectiveId],
                        !.fx = fx]
             transaction == PayloadTransaction(payload)
         IN IF PayloadRejected(payload)
            THEN /\ calls' = [calls EXCEPT ![c] = [call EXCEPT !.pc = "failed"]]
                 /\ uuids' = uuids
            ELSE /\ uuids' = uuids + 1
                 /\ calls' = [calls EXCEPT ![c] =
                      IF HasFeesOnTop(transaction)
                      THEN EnterDoubleEntry([call EXCEPT !.main = MainTransaction(transaction)],
                                            DonationTransaction(transaction, fx), uuids + 1)
                      ELSE EnterDoubleEntry(call, WithNetAmount(transaction), uuids + 1)]
  /\ UNCHANGED <<ledger, expenseVars>>

\* createFeesOnTopTransaction returns the main transaction (line 515) once
\* the donation is created, and createFromPayload goes on to lines 551-566
FeesOnTopCreated(c) ==
  /\ calls[c].op = "createFromPayload"
  /\ calls[c].pc = "creating"
  /\ calls[c].transactions = <<>>
  /\ calls[c].main # NoTransaction
  /\ calls' = [calls EXCEPT ![c] =
                 EnterDoubleEntry([calls[c] EXCEPT !.main = NoTransaction],
                                  WithNetAmount(calls[c].main), uuids + 1)]
  /\ uuids' = uuids + 1
  /\ UNCHANGED <<ledger, expenseVars>>

\* Transaction.createFeesOnTopTransaction({ transaction }) called on its own,
\* lines 468-505: it throws, returns undefined, or enters createDoubleEntry
\* for the donation
CreateFeesOnTopTransaction(c) ==
  /\ NextCall(c)
  /\ Quiet
  /\ \E transaction \in FeesOnTopTransactions :
       LET call == [IdleCall EXCEPT !.op = "createFeesOnTopTransaction",
                                    !.input = transaction,
                                    !.argument = transaction]
       IN IF FeesOnTopRejected(transaction)
          THEN /\ calls' = [calls EXCEPT ![c] = [call EXCEPT !.pc = "failed"]]
               /\ uuids' = uuids
          ELSE IF FeesOnTopSkipped(transaction)
          THEN /\ calls' = [calls EXCEPT ![c] = [call EXCEPT !.pc = "done"]]
               /\ uuids' = uuids
          ELSE /\ calls' = [calls EXCEPT ![c] =
                    EnterDoubleEntry([call EXCEPT !.main = MainTransaction(transaction)],
                                     DonationTransaction(transaction, NoFx), uuids + 1)]
               /\ uuids' = uuids + 1
  /\ UNCHANGED <<ledger, expenseVars>>

\* lines 507-515 of a createFeesOnTopTransaction called on its own: the
\* donation is created, the argument is changed in place and returned
FeesOnTopReturned(c) ==
  /\ calls[c].op = "createFeesOnTopTransaction"
  /\ calls[c].pc = "creating"
  /\ calls[c].transactions = <<>>
  /\ calls' = [calls EXCEPT ![c].pc = "done",
                            ![c].argument = calls[c].main,
                            ![c].value = calls[c].main,
                            ![c].main = NoTransaction]
  /\ UNCHANGED <<ledger, uuids, expenseVars>>

Next ==
  \E c \in CallIds :
    \/ CreateDoubleEntry(c)
    \/ CreateManyDoubleEntry(c)
    \/ CreateFromPayload(c)
    \/ CreditHost(c)
    \/ TransactionCreate(c)
    \/ TransactionCreateFails(c)
    \/ ReturnPrimary(c)
    \/ FeesOnTopCreated(c)
    \/ CreateFeesOnTopTransaction(c)
    \/ FeesOnTopReturned(c)

Spec == Init /\ [][Next]_vars

----------------------------------------------------------------------------
(* The expense mutations (server/graphql/v1/mutations/expenses.js)          *)
(*                                                                         *)
(* A request is one step.  The expenses are those of collective C1, hosted *)
(* by H1 in USD, payee U1.  The capability checks of graphql/common/       *)
(* expenses are opaque: each request carries the answer it gets.  The      *)
(* legacy arguments (attachment, payoutMethod), attachedFiles,             *)
(* fromCollective and payeeLocation are left undefined in every request.   *)

\* Number of expenses created, and of rows the expense mutations write
MaxExpenses == 1
MaxRows == 4

ExpenseIds == 1..MaxExpenses

\* constants/expense_status
statuses ==
  [PENDING |-> "PENDING", APPROVED |-> "APPROVED", REJECTED |-> "REJECTED",
   PAID |-> "PAID", PROCESSING |-> "PROCESSING"]

StatusKeys == {statuses[k] : k \in DOMAIN statuses}

\* models/PayoutMethod PayoutMethodTypes
PayoutMethodTypes ==
  [PAYPAL |-> "PAYPAL", BANK_ACCOUNT |-> "BANK_ACCOUNT",
   ACCOUNT_BALANCE |-> "ACCOUNT_BALANCE"]

\* The PayoutMethods table, by id; the payee is U1 unless the expense names
\* another: U2, which has no host, or U3, which has another host
PayoutMethod ==
  << [id |-> 1, type |-> PayoutMethodTypes.BANK_ACCOUNT, CollectiveId |-> "U1"],
     [id |-> 2, type |-> PayoutMethodTypes.PAYPAL, CollectiveId |-> "U1"],
     [id |-> 3, type |-> PayoutMethodTypes.ACCOUNT_BALANCE, CollectiveId |-> "U1"],
     [id |-> 4, type |-> PayoutMethodTypes.PAYPAL, CollectiveId |-> "U2"],
     [id |-> 5, type |-> PayoutMethodTypes.ACCOUNT_BALANCE, CollectiveId |-> "U2"],
     [id |-> 6, type |-> PayoutMethodTypes.ACCOUNT_BALANCE, CollectiveId |-> "U3"] >>

\* The PayoutMethodId of an expense without payout method
NoPayoutMethod == 0

\* models/Expense getLegacyPayoutMethodTypeFromPayoutMethod(payoutMethod)
getLegacyPayoutMethodTypeFromPayoutMethod(PayoutMethodId) ==
  IF PayoutMethodId # NoPayoutMethod /\ PayoutMethod[PayoutMethodId].type = PayoutMethodTypes.PAYPAL
  THEN "paypal"
  ELSE "other"

\* line 629: the type of the payout method of the expense, or the type its
\* legacy payout method stands for (models/Expense getPayoutMethodTypeFromLegacy)
PayoutMethodTypeOf(expense) ==
  IF expense.PayoutMethodId # NoPayoutMethod THEN PayoutMethod[expense.PayoutMethodId].type
  ELSE IF expense.legacyPayoutMethod = "paypal" THEN PayoutMethodTypes.PAYPAL
  ELSE "OTHER"

\* An error thrown: its class, its message, and the values the message
\* reports (a status, or the names of the amounts)
Error(name, message, mentions) ==
  [name |-> name, message |-> message, mentions |-> mentions]

NoError == Error("none", "", {})

\* req: the user (Null: not logged in), canUseFeature(remoteUser,
\* FEATURE.EXPENSES), and the answer of the capability check of the mutation
Requests ==
  { [remoteUser |-> Null, canUseFeature |-> FALSE, can |-> FALSE],
    [remoteUser |-> "user", canUseFeature |-> FALSE, can |-> FALSE],
    [remoteUser |-> "user", canUseFeature |-> TRUE, can |-> FALSE],
    [remoteUser |-> "user", canUseFeature |-> TRUE, can |-> TRUE] }

RECURSIVE getTotalAmountFromItems(_)
\* lines 88-96
getTotalAmountFromItems(items) ==
  IF items = <<>> THEN 0
  ELSE Head(items) + getTotalAmountFromItems(Tail(items))

\* The most items an expense has (line 103)
MaxItems == 100

\* A faulty checkExpenseItems that does not compare the sum with the amount
checkExpenseItemsWithoutSum(expenseData, items) ==
  IF items = <<>>
  THEN Error("ValidationFailed", "Your expense needs to have at least one item", {})
  ELSE IF Len(items) > MaxItems
  THEN Error("ValidationFailed", "Expenses cannot have more than 100 items", {})
  ELSE IF getTotalAmountFromItems(items) = 0
  THEN Error("ValidationFailed", "The sum of all items must be above 0", {})
  ELSE NoError

\* lines 99-124, for invoices (no file is required)
checkExpenseItems(expenseData, items) ==
  IF items = <<>>
  THEN Error("ValidationFailed", "Your expense needs to have at least one item", {})
  ELSE IF Len(items) > MaxItems
  THEN Error("ValidationFailed", "Expenses cannot have more than 100 items", {})
  ELSE IF getTotalAmountFromItems(items) # expenseData.amount
  THEN Error("ValidationFailed",
             "The sum of all items must be equal to the total expense's amount.",
             {"amount", "sumItems"})
  ELSE IF getTotalAmountFromItems(items) = 0
  THEN Error("ValidationFailed", "The sum of all items must be above 0", {})
  ELSE NoError

\* expenseData has the field (it is not undefined)
Has(expenseData, field) == field \in DOMAIN expenseData

\* lines 138-183, for expenseData.PayoutMethod = { id } or undefined:
\* <<error, id of the payout method>>
getPayoutMethodFromExpenseData(expenseData, fromCollective) ==
  IF ~Has(expenseData, "PayoutMethod") THEN <<NoError, NoPayoutMethod>>
  ELSE IF expenseData.PayoutMethod \notin DOMAIN PayoutMethod
  THEN <<Error("Error", "This payout method does not exist or you don't have the permission to use it", {}),
         NoPayoutMethod>>
  ELSE IF PayoutMethod[expenseData.PayoutMethod].CollectiveId # fromCollective
  THEN <<Error("Error", "This payout method cannot be used for this collective", {}),
         NoPayoutMethod>>
  ELSE <<NoError, expenseData.PayoutMethod>>

\* The expenses that models.Expense.findByPk finds: those not deleted
FoundExpenses == {id \in DOMAIN expenses : ~expenses[id].deleted}

\* What a request does: the error it throws (NoError: none), the expenses
\* and the ledger it leaves, and the calls it makes to the payment providers
Outcome(error, expenses_, ledger_, providerCalls) ==
  [error |-> error, expenses |-> expenses_, ledger |-> ledger_,
   providerCalls |-> providerCalls]

\* What the caller of expense.createActivity gets when the Activity row is
\* not written
ActivityError == Error("Error", "Activity.create", {})

\* await expense.createActivity(type, remoteUser) as the last statement of a
\* mutation that has got to outcome: the rejection is the mutation's
createActivity(outcome, recorded) ==
  IF outcome.error # NoError \/ recorded THEN outcome
  ELSE [outcome EXCEPT !.error = ActivityError]

\* The expenses submitted; one without PayoutMethod is paid by hand
ExpenseData ==
  { [amount |-> 10000, items |-> <<4000, 6000>>, PayoutMethod |-> 1],
    [amount |-> 10000, items |-> <<4000, 6000>>, PayoutMethod |-> 2],
    [amount |-> 10000, items |-> <<4000, 6000>>, PayoutMethod |-> 3],
    [amount |-> 10000, items |-> <<4000, 6000>>],
    [amount |-> 10000, items |-> <<4000, 6000>>, PayoutMethod |-> 5, fromCollective |-> "U2"],
    [amount |-> 10000, items |-> <<4000, 6000>>, PayoutMethod |-> 6, fromCollective |-> "U3"],
    [amount |-> 5000, items |-> <<2000, 2500>>, PayoutMethod |-> 1] }

\* createExpense(remoteUser, expenseData), lines 198-300
createExpenseOutcome(req, expenseData) ==
  LET items == checkExpenseItems(expenseData, expenseData.items)
      fromCollective == IF Has(expenseData, "fromCollective")
                        THEN expenseData.fromCollective ELSE "U1"
      payoutMethod == getPayoutMethodFromExpenseData(expenseData, fromCollective)
      error ==
        IF req.remoteUser = Null
        THEN Error("Unauthorized", "You need to be logged in to create an expense", {})
        ELSE IF ~req.canUseFeature THEN Error("FeatureNotAllowedForUser", "", {})
        ELSE IF items # NoError THEN items
        ELSE payoutMethod[1]
      expense ==
        [status |-> statuses.PENDING,
         amount |-> expenseData.amount,
         currency |-> Collective["C1"].currency,
         CollectiveId |-> "C1",
         FromCollectiveId |-> fromCollective,
         PayoutMethodId |-> payoutMethod[2],
         legacyPayoutMethod |-> getLegacyPayoutMethodTypeFromPayoutMethod(payoutMethod[2]),
         items |-> expenseData.items,
         deleted |-> FALSE]
  IN Outcome(error, IF error = NoError THEN Append(expenses, expense) ELSE expenses,
             ledger, <<>>)

\* The outcomes of createExpense over the requests, line 298 too
createExpenseOutcomesOf(submitted) ==
  {createActivity(outcome, recorded) :
     outcome \in {createExpenseOutcome(req, expenseData) :
                    req \in Requests, expenseData \in submitted},
     recorded \in BOOLEAN}

createExpenseOutcomes == createExpenseOutcomesOf(ExpenseData)

\* createExpense for one of the expenses submitted
createExpenseOf(submitted) ==
  /\ Len(expenses) < MaxExpenses
  /\ \E outcome \in createExpenseOutcomesOf(submitted) : expenses' = outcome.expenses
  /\ UNCHANGED <<ledger, calls, uuids, funds>>

createExpense == createExpenseOf(ExpenseData)

\* A faulty updateExpenseStatusError that lets any expense be set to PAID
updateExpenseStatusErrorPaidFromAny(req, expenseId, status) ==
  IF req.remoteUser = Null
  THEN Error("Unauthorized", "You need to be logged in to update the status of an expense", {})
  ELSE IF ~req.canUseFeature THEN Error("FeatureNotAllowedForUser", "", {})
  ELSE IF status \notin StatusKeys
  THEN Error("ValidationFailed", "Invalid status, status must be one of ", {})
  ELSE IF expenseId \notin FoundExpenses THEN Error("Unauthorized", "Expense not found", {})
  ELSE IF expenses[expenseId].status = statuses.PROCESSING
  THEN Error("Unauthorized", "You can't update the status of an expense being processed",
             {statuses.PROCESSING})
  ELSE IF ~req.can
  THEN Error("Unauthorized", "You don't have permission to approve this expense", {})
  ELSE IF expenses[expenseId].status = status THEN NoError
  ELSE IF status = statuses.APPROVED /\ expenses[expenseId].status = statuses.PAID
  THEN Error("Unauthorized", "You can't approve an expense that is already paid", {})
  ELSE IF status = statuses.REJECTED /\ expenses[expenseId].status = statuses.PAID
  THEN Error("Unauthorized", "You can't reject an expense that is already paid", {})
  ELSE NoError

\* lines 28-71 of updateExpenseStatus: the error thrown, if any
updateExpenseStatusError(req, expenseId, status) ==
  IF req.remoteUser = Null
  THEN Error("Unauthorized", "You need to be logged in to update the status of an expense", {})
  ELSE IF ~req.canUseFeature THEN Error("FeatureNotAllowedForUser", "", {})
  ELSE IF status \notin StatusKeys
  THEN Error("ValidationFailed", "Invalid status, status must be one of ", {})
  ELSE IF expenseId \notin FoundExpenses THEN Error("Unauthorized", "Expense not found", {})
  ELSE IF expenses[expenseId].status = statuses.PROCESSING
  THEN Error("Unauthorized", "You can't update the status of an expense being processed",
             {statuses.PROCESSING})
  ELSE IF ~req.can
  THEN Error("Unauthorized", "You don't have permission to approve this expense", {})
  ELSE IF expenses[expenseId].status = status THEN NoError
  ELSE IF status = statuses.APPROVED /\ expenses[expenseId].status = statuses.PAID
  THEN Error("Unauthorized", "You can't approve an expense that is already paid", {})
  ELSE IF status = statuses.REJECTED /\ expenses[expenseId].status = statuses.PAID
  THEN Error("Unauthorized", "You can't reject an expense that is already paid", {})
  ELSE IF status = statuses.PAID /\ expenses[expenseId].status # statuses.APPROVED
  THEN Error("Unauthorized", "The expense must be approved before you can set it to paid", {})
  ELSE NoError

\* A faulty updateExpenseStatus that leaves a REJECTED expense as it is
updateExpenseStatusOutcomeRejectedStays(req, expenseId, status) ==
  LET error == updateExpenseStatusError(req, expenseId, status)
  IN Outcome(error,
             IF error = NoError /\ expenses[expenseId].status # statuses.REJECTED
             THEN [expenses EXCEPT ![expenseId].status = status]
             ELSE expenses,
             ledger, <<>>)

\* updateExpenseStatus(req, expenseId, status), lines 26-73
updateExpenseStatusOutcome(req, expenseId, status) ==
  LET error == updateExpenseStatusError(req, expenseId, status)
  IN Outcome(error,
             IF error = NoError THEN [expenses EXCEPT ![expenseId].status = status]
             ELSE expenses,
             ledger, <<>>)

\* The status asked for: one of the statuses, or none of them
StatusArgs == StatusKeys \cup {"DONE"}

\* updateExpenseStatus(req, expenseId, status), lines 26-85: an activity is
\* created when the status has been set to APPROVED, REJECTED or PENDING
updateExpenseStatusActivity(req, expenseId, status, recorded) ==
  LET outcome == updateExpenseStatusOutcome(req, expenseId, status)
  IN IF /\ outcome.expenses # expenses
        /\ status \in {statuses.APPROVED, statuses.REJECTED, statuses.PENDING}
     THEN createActivity(outcome, recorded)
     ELSE outcome

\* The outcomes of updateExpenseStatus over the requests
updateExpenseStatusOutcomes ==
  {updateExpenseStatusActivity(req, expenseId, status, recorded) :
     req \in Requests, expenseId \in ExpenseIds, status \in StatusArgs,
     recorded \in BOOLEAN}

updateExpenseStatus ==
  /\ \E outcome \in updateExpenseStatusOutcomes : expenses' = outcome.expenses
  /\ UNCHANGED <<ledger, calls, uuids, funds>>

\* The edits: a field that expenseData leaves undefined is not there
Edits ==
  { [id |-> 1], [amount |-> 5000],
    [items |-> <<3000, 7000>>], [PayoutMethod |-> 2], [PayoutMethod |-> 4] }

\* lines 378-386: the payout method after the edit, <<error, id>>
EditedPayoutMethod(expense, expenseData) ==
  IF Has(expenseData, "PayoutMethod") /\ expenseData.PayoutMethod # expense.PayoutMethodId
  THEN getPayoutMethodFromExpenseData(expenseData, expense.FromCollectiveId)
  ELSE <<NoError, expense.PayoutMethodId>>

\* lines 310-328, ExpenseItem.diffDBEntries finding a difference exactly when
\* the items given are not the items stored
getItemsChanges(expense, expenseData) ==
  Has(expenseData, "items") /\ expenseData.items # expense.items

\* A faulty changesRequireStatusUpdate that looks at the items only
changesRequireStatusUpdateItemsOnly(expense, newExpenseData, hasItemsChanges, hasPayoutChanges) ==
  hasItemsChanges

\* lines 303-307
changesRequireStatusUpdate(expense, newExpenseData, hasItemsChanges, hasPayoutChanges) ==
  LET hasAmountChanges ==
        Has(newExpenseData, "amount") /\ newExpenseData.amount # expense.amount
  IN hasItemsChanges \/ hasAmountChanges \/ hasPayoutChanges

\* lines 332-407 of editExpense: the error thrown, if any
editExpenseError(req, id, expenseData) ==
  IF req.remoteUser = Null
  THEN Error("Unauthorized", "You need to be logged in to edit an expense", {})
  ELSE IF ~req.canUseFeature THEN Error("FeatureNotAllowedForUser", "", {})
  ELSE IF id \notin FoundExpenses THEN Error("NotFound", "Expense not found", {})
  ELSE IF ~req.can
  THEN Error("Unauthorized", "You don't have permission to edit this expense", {})
  ELSE IF EditedPayoutMethod(expenses[id], expenseData)[1] # NoError
  THEN EditedPayoutMethod(expenses[id], expenseData)[1]
  ELSE IF getItemsChanges(expenses[id], expenseData)
  THEN checkExpenseItems(
         [amount |-> IF Has(expenseData, "amount") THEN expenseData.amount
                     ELSE expenses[id].amount],
         expenseData.items)
  ELSE NoError

\* lines 409-453: the expense after expense.update
EditedExpense(expense, expenseData) ==
  LET PayoutMethodId == EditedPayoutMethod(expense, expenseData)[2]
      shouldUpdateStatus ==
        changesRequireStatusUpdate(expense, expenseData,
                                   getItemsChanges(expense, expenseData),
                                   PayoutMethodId # expense.PayoutMethodId)
  IN [expense EXCEPT
        !.amount = IF Has(expenseData, "amount") THEN expenseData.amount ELSE @,
        !.items = IF getItemsChanges(expense, expenseData) THEN expenseData.items ELSE @,
        !.status = IF shouldUpdateStatus THEN "PENDING" ELSE @,
        !.PayoutMethodId = PayoutMethodId,
        !.legacyPayoutMethod = getLegacyPayoutMethodTypeFromPayoutMethod(PayoutMethodId)]

\* editExpense(req, expenseData), lines 330-458
editExpenseOutcome(req, id, expenseData) ==
  LET error == editExpenseError(req, id, expenseData)
  IN Outcome(error,
             IF error = NoError
             THEN [expenses EXCEPT ![id] = EditedExpense(@, expenseData)]
             ELSE expenses,
             ledger, <<>>)

\* The outcomes of editExpense over the requests, line 456 too
editExpenseOutcomesOf(edits) ==
  {createActivity(outcome, recorded) :
     outcome \in {editExpenseOutcome(req, id, expenseData) :
                    req \in Requests, id \in ExpenseIds, expenseData \in edits},
     recorded \in BOOLEAN}

editExpenseOutcomes == editExpenseOutcomesOf(Edits)

\* editExpense for one of the edits
editExpenseOf(edits) ==
  /\ \E outcome \in editExpenseOutcomesOf(edits) : expenses' = outcome.expenses
  /\ UNCHANGED <<ledger, calls, uuids, funds>>

editExpense == editExpenseOf(Edits)

RECURSIVE SumOfNet(_, _)
\* The sum of netAmountInCollectiveCurrency over the rows of a collective
SumOfNet(rows, CollectiveId) ==
  IF rows = <<>> THEN 0
  ELSE (IF Head(rows).CollectiveId = CollectiveId
        THEN Head(rows).netAmountInCollectiveCurrency ELSE 0)
       + SumOfNet(Tail(rows), CollectiveId)

\* collective.getBalance()
getBalance(CollectiveId) == funds + SumOfNet(ledger, CollectiveId)

\* The fee the bank transfer provider quotes, and the fee of a PayPal
\* payment (paymentProviders.paypal.types.adaptive.fees: 2.9% + 30 cents)
QuoteFee == 250
PaypalFee(amount) == Round(amount * 29, 1000) + 30

\* The RefundTransactionId of a row that is not refunded
NoRefund == 0

\* lib/transactions createFromPaidExpense: the transaction it hands to
\* Transaction.createDoubleEntry, collective and host being in one currency
ExpenseTransaction(host, id, expense, paymentProcessorFeeInHostCurrency) ==
  [Transaction(<<-expense.amount,
                 -(expense.amount + paymentProcessorFeeInHostCurrency),
                 ToNegative(paymentProcessorFeeInHostCurrency)>>,
               <<expense.currency, One>>, expense.FromCollectiveId, expense.CollectiveId)
     EXCEPT !.HostCollectiveId = host, !.type = DEBIT]
  @@ [ExpenseId |-> id, RefundTransactionId |-> NoRefund, isRefund |-> FALSE]

\* Transaction.createDoubleEntry(transaction) for a transaction of an expense
\* (lines 403-464): the two rows, in the order of their creation
DoubleEntry(transaction, uuid) ==
  LET primary == PrimaryTransaction(transaction, uuid)
  IN DebitFirst(primary, OppositeTransaction(primary, NoFx))

\* The arguments of payExpense: forceManual and
\* paymentProcessorFeeInCollectiveCurrency (0: not given)
PayArgs == [forceManual : BOOLEAN, paymentProcessorFeeInCollectiveCurrency : {0, 100}]

\* What payExpense meets outside: whether the host is connected to
\* TransferWise, the PayPal payment method of the host (none, one with the
\* email of the payee, another), whether the provider answers the quote and
\* the payment, how many Transaction.create succeed, whether
\* paymentMethod.updateBalance does after a PayPal payment, and whether the
\* activity is recorded
PayEnv(connected, paypal, quoted, paid, created, balanced, recorded) ==
  [connected |-> connected, paypal |-> paypal, quoted |-> quoted, paid |-> paid,
   created |-> created, balanced |-> balanced, recorded |-> recorded]

\* Nothing fails, or one thing does
PayEnvs ==
  {PayEnv(TRUE, paypal, TRUE, TRUE, created, TRUE, TRUE) :
     paypal \in {"same", "other"}, created \in 0..2}
  \cup {PayEnv(FALSE, "other", TRUE, TRUE, 2, TRUE, TRUE),
        PayEnv(TRUE, "none", TRUE, TRUE, 2, TRUE, TRUE),
        PayEnv(TRUE, "other", FALSE, TRUE, 2, TRUE, TRUE),
        PayEnv(TRUE, "other", TRUE, FALSE, 2, TRUE, TRUE),
        PayEnv(TRUE, "other", TRUE, TRUE, 2, FALSE, TRUE),
        PayEnv(TRUE, "other", TRUE, TRUE, 2, TRUE, FALSE)}

\* The result of a payExpense: the error thrown, the provider calls, the fee
\* posted (NoFee: nothing is posted) and the status set (Null: none)
NoFee == -1

PayResult(error, calls_, fee, status) ==
  [error |-> error, providerCalls |-> calls_, fee |-> fee, status |-> status]

\* A faulty payExpenseError that does not compare the amount with the balance
payExpenseErrorWithoutFunds(req, id) ==
  IF req.remoteUser = Null
  THEN Error("Unauthorized", "You need to be logged in to pay an expense", {})
  ELSE IF ~req.canUseFeature THEN Error("FeatureNotAllowedForUser", "", {})
  ELSE IF id \notin FoundExpenses THEN Error("Unauthorized", "Expense not found", {})
  ELSE IF expenses[id].status # statuses.APPROVED
  THEN Error("Unauthorized", "Expense needs to be approved. Current status of the expense: ",
             {expenses[id].status})
  ELSE IF ~req.can
  THEN Error("Unauthorized", "You don't have permission to pay this expense", {})
  ELSE NoError

\* lines 582-624 of payExpense: the error thrown, if any
payExpenseError(req, id) ==
  IF req.remoteUser = Null
  THEN Error("Unauthorized", "You need to be logged in to pay an expense", {})
  ELSE IF ~req.canUseFeature THEN Error("FeatureNotAllowedForUser", "", {})
  ELSE IF id \notin FoundExpenses THEN Error("Unauthorized", "Expense not found", {})
  ELSE IF expenses[id].status = statuses.PAID
  THEN Error("Unauthorized", "Expense has already been paid", {statuses.PAID})
  ELSE IF expenses[id].status = statuses.PROCESSING
  THEN Error("Unauthorized", "Expense is currently being processed, this means someone already started the payment process",
             {statuses.PROCESSING})
  ELSE IF expenses[id].status # statuses.APPROVED
  THEN Error("Unauthorized", "Expense needs to be approved. Current status of the expense: ",
             {expenses[id].status})
  ELSE IF ~req.can
  THEN Error("Unauthorized", "You don't have permission to pay this expense", {})
  ELSE IF expenses[id].legacyPayoutMethod = "donation"
  THEN Error("Error", "In kind donations are not supported anymore", {})
  ELSE IF expenses[id].amount > getBalance(expenses[id].CollectiveId)
  THEN Error("Unauthorized", "You don't have enough funds to pay this expense.",
             {"balance", "amount"})
  ELSE NoError

\* A faulty EstimatedFees that takes the fee for 0 when the quote fails
EstimatedFeesWithoutQuote(expense, args, env) ==
  IF PayoutMethodTypeOf(expense) = PayoutMethodTypes.BANK_ACCOUNT /\ ~args.forceManual
  THEN IF ~env.connected
       THEN PayResult(Error("Error", "Host is not connected to Transferwise", {}), <<>>, NoFee, Null)
       ELSE PayResult(NoError, <<"transferwise.getTemporaryQuote">>,
                      IF env.quoted THEN QuoteFee ELSE 0, Null)
  ELSE IF PayoutMethodTypeOf(expense) = PayoutMethodTypes.PAYPAL /\ ~args.forceManual
  THEN PayResult(NoError, <<>>, PaypalFee(expense.amount), Null)
  ELSE PayResult(NoError, <<>>, args.paymentProcessorFeeInCollectiveCurrency, Null)

\* lines 626-657: the fee estimated in the currency of the collective, after
\* the quote of the provider when the payout is a bank transfer
EstimatedFees(expense, args, env) ==
  IF PayoutMethodTypeOf(expense) = PayoutMethodTypes.BANK_ACCOUNT /\ ~args.forceManual
  THEN IF ~env.connected
       THEN PayResult(Error("Error", "Host is not connected to Transferwise", {}), <<>>, NoFee, Null)
       ELSE IF ~env.quoted
       THEN PayResult(Error("Error", "transferwise", {}),
                      <<"transferwise.getTemporaryQuote">>, NoFee, Null)
       ELSE PayResult(NoError, <<"transferwise.getTemporaryQuote">>, QuoteFee, Null)
  ELSE IF PayoutMethodTypeOf(expense) = PayoutMethodTypes.PAYPAL /\ ~args.forceManual
  THEN PayResult(NoError, <<>>, PaypalFee(expense.amount), Null)
  ELSE PayResult(NoError, <<>>, args.paymentProcessorFeeInCollectiveCurrency, Null)

\* A faulty payout on the balance of the payee that looks at no host
AccountBalancePayoutAnyHost(expense, fee, calls_) ==
  PayResult(NoError, calls_, fee, statuses.PAID)

\* lines 705-716: the payout on the balance that the payee has with the host
AccountBalancePayout(expense, fee, calls_) ==
  IF Collective[expense.FromCollectiveId].HostCollectiveId = Null
  THEN PayResult(Error("Error", "The payee needs to have an Host to able to be paid on its Open Collective balance.", {}),
                 calls_, NoFee, Null)
  ELSE IF Collective[expense.FromCollectiveId].HostCollectiveId # HostOf(expense.CollectiveId)
  THEN PayResult(Error("Error", "The payee needs to be on the same Host than the payer to be paid on its Open Collective balance.", {}),
                 calls_, NoFee, Null)
  ELSE PayResult(NoError, calls_, fee, statuses.PAID)

\* lines 674-722: the payout, by payout method; fee is the estimated fee in
\* host currency and calls_ the provider calls made so far
PayByMethod(expense, args, env, fee, calls_) ==
  LET type == PayoutMethodTypeOf(expense)
  IN IF type = PayoutMethodTypes.PAYPAL
     THEN IF env.paypal = "same" THEN PayResult(NoError, calls_, 0, statuses.PAID)
          ELSE IF args.forceManual THEN PayResult(NoError, calls_, fee, statuses.PAID)
          ELSE IF env.paypal = "none"
          THEN PayResult(Error("Error", "No Paypal account linked, please reconnect Paypal or pay manually", {}),
                         calls_, NoFee, Null)
          ELSE IF ~env.paid
          THEN PayResult(Error("BadRequest", "paypal", {}),
                         Append(calls_, "paypal.pay"), NoFee, Null)
          ELSE PayResult(NoError, Append(calls_, "paypal.pay"), fee, statuses.PAID)
     ELSE IF type = PayoutMethodTypes.BANK_ACCOUNT
     THEN IF args.forceManual THEN PayResult(NoError, calls_, 0, statuses.PAID)
          ELSE IF ~env.connected
          THEN PayResult(Error("Error", "Host is not connected to Transferwise", {}),
                         calls_, NoFee, Null)
          ELSE IF ~env.paid
          THEN PayResult(Error("Error", "transferwise", {}),
                         Append(calls_, "transferwise.payExpense"), NoFee, Null)
          ELSE PayResult(NoError, Append(calls_, "transferwise.payExpense"),
                         fee, statuses.PROCESSING)
     ELSE IF type = PayoutMethodTypes.ACCOUNT_BALANCE
     THEN AccountBalancePayout(expense, fee, calls_)
     ELSE IF expense.legacyPayoutMethod \in {"manual", "other"}
     THEN PayResult(NoError, calls_, fee, statuses.PAID)
     ELSE PayResult(NoError, calls_, NoFee, statuses.PAID)

\* lines 582-672: the checks of payExpense, which end with an error or with
\* the fee estimated
payExpenseFunded(req, id, args, env) ==
  IF payExpenseError(req, id) # NoError
  THEN PayResult(payExpenseError(req, id), <<>>, NoFee, Null)
  ELSE LET expense == expenses[id]
           fees == EstimatedFees(expense, args, env)
       IN IF fees.error # NoError THEN fees
          ELSE IF expense.amount + fees.fee > getBalance(expense.CollectiveId)
          THEN PayResult(Error("Error", "You don't have enough funds to cover for the fees of this payment method.",
                               {"balance", "amount", "fees"}),
                         fees.providerCalls, NoFee, Null)
          ELSE fees

\* lines 577-722 but for the Transaction.create themselves
payExpenseResult(req, id, args, env) ==
  LET funded == payExpenseFunded(req, id, args, env)
  IN IF funded.error # NoError THEN funded
     ELSE PayByMethod(expenses[id], args, env, funded.fee, funded.providerCalls)

\* The first n elements of a sequence, or all of them
Take(seq, n) == SubSeq(seq, 1, IF n < Len(seq) THEN n ELSE Len(seq))

\* A faulty payExpense that posts nothing for an expense left PROCESSING
payExpenseOutcomeProcessingUnposted(req, id, args, env) ==
  LET result == payExpenseResult(req, id, args, env)
      rows == IF /\ result.error = NoError
                 /\ result.fee # NoFee
                 /\ result.status # statuses.PROCESSING
              THEN DoubleEntry(ExpenseTransaction(HostOf(expenses[id].CollectiveId), id,
                                                  expenses[id], result.fee),
                               uuids + 1)
              ELSE <<>>
      written == Take(rows, env.created)
      error == IF Len(written) < Len(rows)
               THEN Error("Error", "Transaction.create", {})
               ELSE result.error
  IN Outcome(error,
             IF error = NoError THEN [expenses EXCEPT ![id].status = result.status]
             ELSE expenses,
             ledger \o written, result.providerCalls)

\* lines 674-722 of payExpense, after the payment provider has answered as
\* result says, for a call that has loaded the expenses seen. In
\* payExpenseWithPayPal (lines 520-553) the rows are created, expense.setPaid
\* is called and not awaited, and paymentMethod.updateBalance is awaited;
\* what any of them throws is thrown again as a BadRequest.
payExpensePaid(id, seen, result, env) ==
  LET rows == IF result.error = NoError /\ result.fee # NoFee
              THEN DoubleEntry(ExpenseTransaction(HostOf(seen[id].CollectiveId), id,
                                                  seen[id], result.fee),
                               uuids + 1)
              ELSE <<>>
      written == Take(rows, env.created)
      withPayPal == /\ result.error = NoError
                    /\ result.providerCalls # <<>>
                    /\ result.providerCalls[Len(result.providerCalls)] = "paypal.pay"
      setPaid == withPayPal /\ Len(written) = Len(rows)
      error == IF Len(written) < Len(rows)
               THEN Error(IF withPayPal THEN "BadRequest" ELSE "Error", "Transaction.create", {})
               ELSE IF setPaid /\ ~env.balanced
               THEN Error("BadRequest", "paymentMethod.updateBalance", {})
               ELSE IF result.error = NoError /\ ~env.recorded THEN ActivityError
               ELSE result.error
      \* line 568 comes before setProcessing, line 501 after setPaid
      markedAsPaid == error = ActivityError /\ result.status = statuses.PAID
  IN Outcome(error,
             IF error = NoError \/ setPaid \/ markedAsPaid
             THEN [expenses EXCEPT ![id].status = result.status]
             ELSE expenses,
             ledger \o written,
             IF setPaid THEN Append(result.providerCalls, "paypal.updateBalance")
             ELSE result.providerCalls)

\* payExpense(req, args), lines 577-723, with no other request in between
payExpenseOutcome(req, id, args, env) ==
  payExpensePaid(id, expenses, payExpenseResult(req, id, args, env), env)

\* The outcomes of payExpense over the requests and what they meet
payExpenseOutcomes ==
  {payExpenseOutcome(req, id, args, env) :
     req \in Requests, id \in ExpenseIds, args \in PayArgs, env \in PayEnvs}

\* payExpense while the ledger holds no more than max rows
payExpenseWithin(max) ==
  \E outcome \in payExpenseOutcomes :
    /\ Len(outcome.ledger) <= max
    /\ ledger' = outcome.ledger
    /\ uuids' = IF Len(outcome.ledger) = Len(ledger) THEN uuids ELSE uuids + 1
    /\ expenses' = outcome.expenses
    /\ UNCHANGED <<calls, funds>>

payExpense == payExpenseWithin(MaxRows)

\* A faulty markExpenseAsUnpaidError that does not ask canMarkAsUnpaid
markExpenseAsUnpaidErrorAnyCaller(req, ExpenseId) ==
  IF req.remoteUser = Null
  THEN Error("Unauthorized", "You need to be logged in to unpay an expense", {})
  ELSE IF ~req.canUseFeature THEN Error("FeatureNotAllowedForUser", "", {})
  ELSE IF ExpenseId \notin FoundExpenses THEN Error("NotFound", "No expense found", {})
  ELSE IF expenses[ExpenseId].status # statuses.PAID
  THEN Error("Unauthorized", "Expense has not been paid yet", {})
  ELSE NoError

\* A faulty markExpenseAsUnpaidError that does not look at the status
markExpenseAsUnpaidErrorAnyStatus(req, ExpenseId) ==
  IF req.remoteUser = Null
  THEN Error("Unauthorized", "You need to be logged in to unpay an expense", {})
  ELSE IF ~req.canUseFeature THEN Error("FeatureNotAllowedForUser", "", {})
  ELSE IF ExpenseId \notin FoundExpenses THEN Error("NotFound", "No expense found", {})
  ELSE IF ~req.can
  THEN Error("Unauthorized", "You don't have permission to mark this expense as unpaid", {})
  ELSE NoError

\* lines 727-751 of markExpenseAsUnpaid: the error thrown, if any
markExpenseAsUnpaidError(req, ExpenseId) ==
  IF req.remoteUser = Null
  THEN Error("Unauthorized", "You need to be logged in to unpay an expense", {})
  ELSE IF ~req.canUseFeature THEN Error("FeatureNotAllowedForUser", "", {})
  ELSE IF ExpenseId \notin FoundExpenses THEN Error("NotFound", "No expense found", {})
  ELSE IF ~req.can
  THEN Error("Unauthorized", "You don't have permission to mark this expense as unpaid", {})
  ELSE IF expenses[ExpenseId].status # statuses.PAID
  THEN Error("Unauthorized", "Expense has not been paid yet", {})
  ELSE NoError

\* A faulty RefundTransaction that never refunds the fee of the processor
RefundTransactionWithoutFee(transaction, paymentProcessorFeeInHostCurrency) ==
  [transaction EXCEPT
     !.amount = -@,
     !.amountInHostCurrency = -@,
     !.netAmountInCollectiveCurrency = -@,
     !.hostFeeInHostCurrency = -@,
     !.platformFeeInHostCurrency = -@,
     !.paymentProcessorFeeInHostCurrency = 0,
     !.RefundTransactionId = NoRefund,
     !.isRefund = TRUE]

\* lib/payments createRefundTransaction: the inverse of a transaction, which
\* goes through Transaction.createDoubleEntry; the fee of the processor that
\* is refunded is the caller's (line 757)
RefundTransaction(transaction, paymentProcessorFeeInHostCurrency) ==
  [transaction EXCEPT
     !.amount = -@,
     !.amountInHostCurrency = -@,
     !.netAmountInCollectiveCurrency = -@,
     !.hostFeeInHostCurrency = -@,
     !.platformFeeInHostCurrency = -@,
     !.paymentProcessorFeeInHostCurrency = -paymentProcessorFeeInHostCurrency,
     !.RefundTransactionId = NoRefund,
     !.isRefund = TRUE]

\* The row that is the refund of a row, after lines 757-763
RefundOf(transaction, processorFeeRefunded) ==
  LET refund == RefundTransaction(transaction,
                                  IF processorFeeRefunded
                                  THEN transaction.paymentProcessorFeeInHostCurrency ELSE 0)
  IN DoubleEntry(refund, uuids + 1)[1 + PrimaryIndex(refund)]

\* The rows that Transaction.findOne({ where: { ExpenseId } }) may return
\* (line 753): no order is asked for
TransactionsOf(ExpenseId) ==
  {i \in 1..Len(ledger) : ledger[i].ExpenseId = ExpenseId}

\* lib/payments associateTransactionRefundId(transaction, refund): the rows
\* after the two rows of the refund have been added to them; row found and
\* its inverse name each other, and so do the row paired with found and the
\* other row of the refund
AssociatedRefund(rows, found) ==
  LET refund == Len(rows) - 1 + PrimaryIndex(RefundTransaction(rows[found], 0))
      opposite == 2 * Len(rows) - 1 - refund
      paired == {i \in 1..Len(rows) - 2 :
                   i # found /\ rows[i].TransactionGroup = rows[found].TransactionGroup}
  IN [i \in 1..Len(rows) |->
        [rows[i] EXCEPT !.RefundTransactionId =
           IF i = found THEN refund
           ELSE IF i = refund THEN found
           ELSE IF i \in paired THEN opposite
           ELSE IF i = opposite /\ paired # {} THEN CHOOSE j \in paired : TRUE
           ELSE @]]

\* A faulty markExpenseAsUnpaidOutcome: the refunded row is voided in place
markExpenseAsUnpaidOutcomeVoids(req, ExpenseId, processorFeeRefunded, found, created) ==
  LET rejected == markExpenseAsUnpaidError(req, ExpenseId)
      refunding == rejected = NoError /\ found # 0
                     /\ ledger[found].RefundTransactionId = NoRefund
      rows == IF refunding
              THEN DoubleEntry(
                     RefundTransaction(ledger[found],
                       IF processorFeeRefunded
                       THEN ledger[found].paymentProcessorFeeInHostCurrency ELSE 0),
                     uuids + 1)
              ELSE <<>>
      written == Take(rows, created)
      error == IF rejected # NoError THEN rejected
               ELSE IF found = 0
               THEN Error("TypeError", "Cannot read property of null", {})
               ELSE IF ~refunding
               THEN Error("AlreadyRefunded", "", {})
               ELSE IF Len(written) < Len(rows)
               THEN Error("Error", "Transaction.create", {})
               ELSE NoError
  IN Outcome(error,
             IF error = NoError
             THEN [expenses EXCEPT ![ExpenseId].status = statuses.APPROVED]
             ELSE expenses,
             IF error = NoError
             THEN AssociatedRefund([ledger EXCEPT ![found].amount = 0] \o written, found)
             ELSE ledger \o written,
             <<>>)

\* markExpenseAsUnpaid(req, ExpenseId, processorFeeRefunded), lines 725-770;
\* found is the row that findOne returns (0: none), created the number of
\* Transaction.create that succeed
markExpenseAsUnpaidOutcome(req, ExpenseId, processorFeeRefunded, found, created) ==
  LET rejected == markExpenseAsUnpaidError(req, ExpenseId)
      refunding == rejected = NoError /\ found # 0
                     /\ ledger[found].RefundTransactionId = NoRefund
      rows == IF refunding
              THEN DoubleEntry(
                     RefundTransaction(ledger[found],
                       IF processorFeeRefunded
                       THEN ledger[found].paymentProcessorFeeInHostCurrency ELSE 0),
                     uuids + 1)
              ELSE <<>>
      written == Take(rows, created)
      error == IF rejected # NoError THEN rejected
               ELSE IF found = 0
               THEN Error("TypeError", "Cannot read property of null", {})
               ELSE IF ~refunding
               THEN Error("AlreadyRefunded", "", {})
               ELSE IF Len(written) < Len(rows)
               THEN Error("Error", "Transaction.create", {})
               ELSE NoError
  IN Outcome(error,
             IF error = NoError
             THEN [expenses EXCEPT ![ExpenseId].status = statuses.APPROVED]
             ELSE expenses,
             IF error = NoError
             THEN AssociatedRefund(ledger \o written, found)
             ELSE ledger \o written,
             <<>>)

\* The rows that findOne may return for the expense: 0 when it has none
Found(ExpenseId) ==
  IF TransactionsOf(ExpenseId) = {} THEN {0} ELSE TransactionsOf(ExpenseId)

\* The outcomes of markExpenseAsUnpaid over the requests and what they meet,
\* line 768 too
markExpenseAsUnpaidOutcomes ==
  UNION {{createActivity(outcome, recorded) :
            outcome \in {markExpenseAsUnpaidOutcome(req, ExpenseId, processorFeeRefunded,
                                                    found, created) :
                           req \in Requests, processorFeeRefunded \in BOOLEAN,
                           found \in Found(ExpenseId), created \in 0..2},
            recorded \in BOOLEAN} :
         ExpenseId \in ExpenseIds}

\* markExpenseAsUnpaid while the ledger holds no more than max rows
markExpenseAsUnpaidWithin(max) ==
  \E outcome \in markExpenseAsUnpaidOutcomes :
    /\ Len(outcome.ledger) <= max
    /\ ledger' = outcome.ledger
    /\ uuids' = IF Len(outcome.ledger) = Len(ledger) THEN uuids ELSE uuids + 1
    /\ expenses' = outcome.expenses
    /\ UNCHANGED <<calls, funds>>

markExpenseAsUnpaid == markExpenseAsUnpaidWithin(MaxRows)

\* What the collective holds before its expenses
Funds == {9999, 10200}

ExpenseInit ==
  /\ ledger = <<>>
  /\ calls = [c \in CallIds |-> IdleCall]
  /\ uuids = 0
  /\ expenses = <<>>
  /\ funds \in Funds

ExpenseNext ==
  \/ createExpense
  \/ updateExpenseStatus
  \/ editExpense
  \/ payExpense
  \/ markExpenseAsUnpaid

ExpenseSpec == ExpenseInit /\ [][ExpenseNext]_vars

----------------------------------------------------------------------------
(* An expense that is submitted and edited, its amount and its items, and
   deleted *)

\* The expenses submitted: those of ExpenseData, and more items and amounts
SubmittedData ==
  ExpenseData
  \cup { [amount |-> 5000, items |-> <<2000, 3000>>],
         [amount |-> 5000, items |-> <<5000>>],
         [amount |-> 4500, items |-> <<2000, 2500>>],
         [amount |-> 5000, items |-> <<>>],
         [amount |-> 0, items |-> <<>>],
         [amount |-> 0, items |-> <<0>>],
         [amount |-> 0, items |-> <<0, 0>>],
         [amount |-> MaxItems, items |-> [i \in 1..MaxItems |-> 1]],
         [amount |-> MaxItems + 1, items |-> [i \in 1..MaxItems + 1 |-> 1]],
         [amount |-> 5000, items |-> [i \in 1..MaxItems + 1 |-> 1]] }

\* A faulty deleteExpenseError that does not ask canDeleteExpense
deleteExpenseErrorAnyCaller(req, expenseId) ==
  IF req.remoteUser = Null
  THEN Error("Unauthorized", "You need to be logged in to delete an expense", {})
  ELSE IF ~req.canUseFeature THEN Error("FeatureNotAllowedForUser", "", {})
  ELSE IF expenseId \notin FoundExpenses THEN Error("NotFound", "Expense not found", {})
  ELSE NoError

\* lines 460-484 of deleteExpense: the error thrown, if any
deleteExpenseError(req, expenseId) ==
  IF req.remoteUser = Null
  THEN Error("Unauthorized", "You need to be logged in to delete an expense", {})
  ELSE IF ~req.canUseFeature THEN Error("FeatureNotAllowedForUser", "", {})
  ELSE IF expenseId \notin FoundExpenses THEN Error("NotFound", "Expense not found", {})
  ELSE IF ~req.can
  THEN Error("Unauthorized",
             "You don't have permission to delete this expense or it needs to be rejected before being deleted",
             {})
  ELSE NoError

\* deleteExpense(req, expenseId), lines 460-484
deleteExpenseOutcome(req, expenseId) ==
  LET error == deleteExpenseError(req, expenseId)
  IN Outcome(error,
             IF error = NoError THEN [expenses EXCEPT ![expenseId].deleted = TRUE]
             ELSE expenses,
             ledger, <<>>)

deleteExpense ==
  /\ \E outcome \in {deleteExpenseOutcome(req, expenseId) :
                        req \in Requests, expenseId \in ExpenseIds} :
       expenses' = outcome.expenses
  /\ UNCHANGED <<ledger, calls, uuids, funds>>

\* The edits: those of Edits, and edits of the amount, of the items and of both
SubmittedEdits ==
  Edits
  \cup { [amount |-> 10000], [amount |-> 4500],
         [items |-> <<2000, 3000>>], [items |-> <<2000, 2500>>], [items |-> <<>>],
         [amount |-> 5000, items |-> <<2000, 3000>>],
         [amount |-> 5000, items |-> <<2000, 2500>>],
         [amount |-> 10000, items |-> <<10000>>] }

SubmitExpense == createExpenseOf(SubmittedData)
ResubmitExpense == editExpenseOf(SubmittedEdits)

SubmitNext ==
  \/ SubmitExpense
  \/ ResubmitExpense
  \/ updateExpenseStatus
  \/ deleteExpense

SubmitSpec == ExpenseInit /\ [][SubmitNext]_vars

----------------------------------------------------------------------------
(* An expense that is submitted and approved, then paid and marked as unpaid
   again and again *)

MaxRefundRows == 6

RepayExpense == payExpenseWithin(MaxRefundRows)
RefundExpense == markExpenseAsUnpaidWithin(MaxRefundRows)

RefundNext ==
  \/ createExpense
  \/ updateExpenseStatus
  \/ RepayExpense
  \/ RefundExpense

RefundSpec == ExpenseInit /\ [][RefundNext]_vars

----------------------------------------------------------------------------
(* The expense mutations, with the requests to payExpense running together:
   a request awaits between its checks and its payout, and another request
   may run meanwhile *)

\* What payExpense may find in lines 582-672 for the expense, and what the
\* payout that follows would meet
PayExpenseChecks(id) ==
  {[funded |-> payExpenseFunded(req, id, args, env),
    result |-> payExpenseResult(req, id, args, env),
    created |-> env.created, balanced |-> env.balanced, recorded |-> env.recorded] :
     req \in Requests, args \in PayArgs, env \in PayEnvs}

\* A payExpense that has ended: the requests that were paying the expense
\* when it began, the error it threw, the calls it made to the payment
\* providers and the number of rows it wrote
PayExpenseEnded(id, during, error, providerCalls, rows) ==
  [op |-> "payExpense", pc |-> IF error = NoError THEN "done" ELSE "failed",
   id |-> id, during |-> during, error |-> error, providerCalls |-> providerCalls,
   rows |-> rows]

\* The requests that have checked the expense and not paid it yet
PayingExpense(id) ==
  {c \in CallIds : /\ calls[c].op = "payExpense"
                   /\ calls[c].pc = "checked"
                   /\ calls[c].id = id}

\* lines 577-672: request c loads the expense and checks its status, the
\* permission and the balance. The requests are numbered as they begin.
PayExpenseBegin(c) ==
  /\ calls[c] = IdleCall
  /\ \A d \in CallIds : d < c => calls[d] # IdleCall
  /\ \E id \in DOMAIN expenses : \E check \in PayExpenseChecks(id) :
       calls' = [calls EXCEPT ![c] =
                   IF check.funded.error # NoError
                   THEN PayExpenseEnded(id, {}, check.funded.error,
                                        check.funded.providerCalls, 0)
                   ELSE [op |-> "payExpense", pc |-> "checked", id |-> id,
                         during |-> PayingExpense(id), seen |-> expenses, result |-> check.result,
                         created |-> check.created, balanced |-> check.balanced,
                         recorded |-> check.recorded,
                         providerCalls |-> check.funded.providerCalls]]
  /\ UNCHANGED <<ledger, uuids, expenses, funds>>

\* lines 674-722: request c pays the expense it has loaded, writes its rows
\* and sets its status
PayExpenseEnd(c) ==
  /\ calls[c].op = "payExpense"
  /\ calls[c].pc = "checked"
  /\ LET outcome == payExpensePaid(calls[c].id, calls[c].seen, calls[c].result, calls[c])
     IN /\ Len(outcome.ledger) <= MaxRows
        /\ ledger' = outcome.ledger
        /\ uuids' = IF Len(outcome.ledger) = Len(ledger) THEN uuids ELSE uuids + 1
        /\ expenses' = outcome.expenses
        /\ calls' = [calls EXCEPT ![c] =
                       PayExpenseEnded(calls[c].id, calls[c].during, outcome.error,
                                       outcome.providerCalls,
                                       Len(outcome.ledger) - Len(ledger))]
  /\ UNCHANGED funds

\* The expenses submitted: those of ExpenseData, and expenses that the
\* collective can pay with the fee of a provider
PayableData ==
  ExpenseData
  \cup { [amount |-> 5000, items |-> <<2000, 3000>>, PayoutMethod |-> 1],
         [amount |-> 5000, items |-> <<2000, 3000>>, PayoutMethod |-> 2] }

SubmitPayable == createExpenseOf(PayableData)

ConcurrentNext ==
  \/ SubmitPayable
  \/ updateExpenseStatus
  \/ \E c \in CallIds : PayExpenseBegin(c)
  \/ \E c \in CallIds : PayExpenseEnd(c)

ConcurrentSpec == ExpenseInit /\ [][ConcurrentNext]_vars

----------------------------------------------------------------------------
(* editExpense while payExpense is running                                 *)
(*                                                                         *)
(* editExpense loads the expense (line 340), awaits the capability check,  *)
(* the payout method and the items, and writes the expense in a store      *)
(* transaction (lines 388-453) that reads no status again; payExpense      *)
(* opens no transaction at all.  Each of them is a step that loads and     *)
(* checks and a step that writes, and the steps of one edit and one        *)
(* payment interleave freely.                                              *)

\* Edits that change the amount and the items, the items, the payout method
PayableEdits ==
  { [amount |-> 4500, items |-> <<2000, 2500>>],
    [items |-> <<1000, 4000>>],
    [PayoutMethod |-> 3] }

\* An editExpense that has ended: the status it had loaded, whether the edit
\* asked for a new status, the payExpense requests that ran while it did,
\* and the error it threw
EditExpenseEnded(id, status, changed, during, error) ==
  [op |-> "editExpense", pc |-> IF error = NoError THEN "done" ELSE "failed",
   id |-> id, status |-> status, changed |-> changed, during |-> during,
   error |-> error]

\* The payExpense requests on the expense that have ended
PaidExpense(id) ==
  {c \in CallIds : /\ calls[c].op = "payExpense"
                   /\ calls[c].pc \in {"done", "failed"}
                   /\ calls[c].id = id}

\* lines 330-387: request c loads the expense and checks the permission, the
\* payout method and the items
EditExpenseBegin(c) ==
  /\ calls[c] = IdleCall
  /\ \A d \in CallIds : calls[d].op # "editExpense"
  /\ \E id \in DOMAIN expenses, req \in Requests, expenseData \in PayableEdits :
       LET error == editExpenseError(req, id, expenseData)
       IN calls' = [calls EXCEPT ![c] =
                      IF error # NoError
                      THEN EditExpenseEnded(id, expenses[id].status, FALSE, {}, error)
                      ELSE [op |-> "editExpense", pc |-> "loaded", id |-> id,
                            seen |-> expenses, expenseData |-> expenseData,
                            before |-> PaidExpense(id)]]
  /\ UNCHANGED <<ledger, uuids, expenses, funds>>

\* lines 388-456: request c writes the expense it has loaded, with the status
\* that the edit asks for, and records the activity
EditExpenseEnd(c) ==
  /\ calls[c].op = "editExpense"
  /\ calls[c].pc = "loaded"
  /\ \E recorded \in BOOLEAN :
       LET id == calls[c].id
           edited == EditedExpense(calls[c].seen[id], calls[c].expenseData)
           during == (PayingExpense(id) \cup PaidExpense(id)) \ calls[c].before
       IN /\ expenses' = [expenses EXCEPT ![id] = edited]
          /\ calls' = [calls EXCEPT ![c] =
                         EditExpenseEnded(id, calls[c].seen[id].status,
                                          edited.status # calls[c].seen[id].status,
                                          during,
                                          IF recorded THEN NoError ELSE ActivityError)]
  /\ UNCHANGED <<ledger, uuids, funds>>

EditPayNext ==
  \/ SubmitPayable
  \/ updateExpenseStatus
  \/ \E c \in CallIds : (\A d \in CallIds : calls[d].op # "payExpense") /\ PayExpenseBegin(c)
  \/ \E c \in CallIds : PayExpenseEnd(c)
  \/ \E c \in CallIds : EditExpenseBegin(c)
  \/ \E c \in CallIds : EditExpenseEnd(c)

EditPaySpec == ExpenseInit /\ [][EditPayNext]_vars

----------------------------------------------------------------------------
(* The fees of payExpense, for a collective in any currency                *)
(*                                                                         *)
(* Lines 626-720 of payExpense as a function of what it is given: the type *)
(* of the payout method, forceManual, the fees of the arguments, the rate  *)
(* from the currency of the collective to that of the host, and the PayPal *)
(* payment method of the host.  The expenses above are those of a          *)
(* collective in the currency of its host, for which the rate is 1.        *)

\* The rates getFxRate(expense.collective.currency, host.currency) may answer
FxRates == {One, <<3, 2>>, <<7, 8>>}

\* The fees of the arguments, in the currency of the collective (0: not given)
FeeArgs ==
  [paymentProcessorFeeInCollectiveCurrency : {0, 100},
   hostFeeInCollectiveCurrency : {0, 33},
   platformFeeInCollectiveCurrency : {0, 25}]

\* The payouts: <<type of the payout method, forceManual, PayPal payment
\* method of the host>>
Payouts ==
  {<<PayoutMethodTypes.PAYPAL, forceManual, paypal>> :
     forceManual \in BOOLEAN, paypal \in {"same", "other"}}
  \cup {<<type, forceManual, "other">> :
          type \in {PayoutMethodTypes.BANK_ACCOUNT, PayoutMethodTypes.ACCOUNT_BALANCE, "OTHER"},
          forceManual \in BOOLEAN}

\* The amount of the expense that is paid
PaidAmount == 10000

\* lines 631-649: the fee of the payment processor after the estimate of the
\* provider, in the currency of the collective; the quote of TransferWise is
\* in the currency of the host
EstimatedProcessorFee(type, forceManual, fxrate, fees) ==
  IF type = PayoutMethodTypes.BANK_ACCOUNT /\ ~forceManual
  THEN Round(QuoteFee * fxrate[2], fxrate[1])
  ELSE IF type = PayoutMethodTypes.PAYPAL /\ ~forceManual
  THEN PaypalFee(PaidAmount)
  ELSE fees.paymentProcessorFeeInCollectiveCurrency

\* lines 651-655: the fees in the currency of the host
feesInHostCurrency(fxrate, paymentProcessorFeeInCollectiveCurrency, fees) ==
  [paymentProcessorFeeInHostCurrency |->
     Round(fxrate[1] * paymentProcessorFeeInCollectiveCurrency, fxrate[2]),
   hostFeeInHostCurrency |->
     Round(fxrate[1] * fees.hostFeeInCollectiveCurrency, fxrate[2]),
   platformFeeInHostCurrency |->
     Round(fxrate[1] * fees.platformFeeInCollectiveCurrency, fxrate[2])]

\* lines 674-720: the fees that reach createTransactions or
\* createTransactionFromPaidExpense, by payout method
FeesPosted(type, forceManual, paypal, fees) ==
  IF type = PayoutMethodTypes.PAYPAL /\ paypal = "same"
  THEN [fees EXCEPT !.paymentProcessorFeeInHostCurrency = 0]
  ELSE IF type = PayoutMethodTypes.BANK_ACCOUNT /\ forceManual
  THEN [fees EXCEPT !.paymentProcessorFeeInHostCurrency = 0]
  ELSE fees

\* payExpense from line 626 to the posting, for a payout that nothing fails
PayExpenseFees(c) ==
  /\ NextCall(c)
  /\ \E payout \in Payouts, fxrate \in FxRates, fees \in FeeArgs :
       LET type == payout[1]
           forceManual == payout[2]
           estimated == EstimatedProcessorFee(type, forceManual, fxrate, fees)
       IN calls' = [calls EXCEPT ![c] =
            [op |-> "payExpense", pc |-> "posted",
             type |-> type, forceManual |-> forceManual, paypal |-> payout[3],
             fxrate |-> fxrate, fees |-> fees, estimated |-> estimated,
             posted |-> FeesPosted(type, forceManual, payout[3],
                                   feesInHostCurrency(fxrate, estimated, fees))]]
  /\ UNCHANGED <<ledger, uuids, expenseVars>>

FeesNext == \E c \in CallIds : PayExpenseFees(c)

FeesSpec == Init /\ [][FeesNext]_vars

----------------------------------------------------------------------------
(* Properties *)

Rows == 1..Len(ledger)

\* The rows of the ledger that carry TransactionGroup g
GroupRows(g) == {i \in Rows : ledger[i].TransactionGroup = g}

\* The calls of createDoubleEntry itself, alone or through createManyDoubleEntry
DoubleEntryCalls ==
  {c \in CallIds : calls[c].op \in {"createDoubleEntry", "createManyDoubleEntry"}}

\* The calls whose current createDoubleEntry has created both of its rows
BothCreated == {c \in CallIds : calls[c].op # "creditHost" /\ Len(calls[c].results) = 2}

\* The two rows of the current createDoubleEntry of call c, by role
PrimaryRow(c) == ledger[calls[c].results[calls[c].index + 1]]
OppositeRow(c) == ledger[calls[c].results[2 - calls[c].index]]

\* C1: every persisted row has type CREDIT if and only if its amount is > 0.
C1_TypeFollowsAmount ==
  \A i \in Rows : (ledger[i].type = CREDIT) <=> (ledger[i].amount > 0)

\* C2: of the two rows of one entry group, the one with a negative amount is
\* persisted before the one with a positive amount, whichever is the primary.
C2_DebitBeforeCredit ==
  \A i \in Rows, j \in Rows :
    /\ ledger[i].TransactionGroup = ledger[j].TransactionGroup
    /\ ledger[i].amount < 0
    /\ ledger[j].amount > 0
    => i < j

\* C2 witness: two calls have returned, one with a DEBIT primary created
\* first and one with a CREDIT primary created second, each after (before) an
\* opposite of the other sign.
C2_Witness ==
  \E c \in DoubleEntryCalls, d \in DoubleEntryCalls :
    /\ calls[c].pc = "done" /\ calls[d].pc = "done"
    /\ calls[c].index = 0 /\ PrimaryRow(c).amount < 0 /\ OppositeRow(c).amount > 0
    /\ calls[d].index = 1 /\ PrimaryRow(d).amount > 0 /\ OppositeRow(d).amount < 0

Sign(x) == IF x > 0 THEN 1 ELSE IF x < 0 THEN -1 ELSE 0

\* C3: a createDoubleEntry call that returns has created exactly two rows, and
\* the row it returns is the primary: the row with the FromCollectiveId, the
\* CollectiveId and the amount of the transaction it was given.
C3_ReturnsPrimary ==
  \A c \in DoubleEntryCalls :
    calls[c].pc = "done" =>
      /\ Len(calls[c].results) = 2
      /\ \A g \in calls[c].groups : Cardinality(GroupRows(g)) = 2
      /\ calls[c].returned \in Rows
      /\ LET row == ledger[calls[c].returned]
         IN /\ row.TransactionGroup \in calls[c].groups
            /\ row.FromCollectiveId = calls[c].input.FromCollectiveId
            /\ row.CollectiveId = calls[c].input.CollectiveId
            /\ Sign(row.amount) = Sign(calls[c].input.amount)

\* C3 witness: one call returned a primary created first, another a primary
\* created second.
C3_Witness ==
  \E c \in DoubleEntryCalls, d \in DoubleEntryCalls :
    /\ calls[c].pc = "done" /\ calls[c].returned = calls[c].results[1]
    /\ calls[d].pc = "done" /\ calls[d].returned = calls[d].results[2]

\* The rate from the currency of the primary row to the currency of the
\* opposite row that createDoubleEntry recorded in the opposite row (1 when it
\* looked none up)
RecordedFxRate(row) ==
  IF row.data.oppositeTransactionCurrencyFxRate = NoRate
  THEN One
  ELSE row.data.oppositeTransactionCurrencyFxRate

\* x / xden (in the currency of the primary row) converted with rate is within
\* one minor unit of y / yden (in the currency of the opposite row)
Reconciles(x, xden, rate, y, yden) ==
  Abs(x * rate[1] * yden - y * rate[2] * xden) <= xden * yden * rate[2]

\* C4: in every entry group of createDoubleEntry, the amount of the CREDIT leg
\* (the row with a positive amount) and the absolute net amount of the DEBIT
\* leg (the row with a negative amount), converted with the rate between the
\* currencies of the two rows, differ by at most 1 minor unit.
C4_LegsReconcile ==
  \A c \in BothCreated :
    LET primary == PrimaryRow(c)
        opposite == OppositeRow(c)
        rate == RecordedFxRate(opposite)
    IN /\ primary.amount > 0 /\ opposite.amount < 0 =>
            Reconciles(primary.amount, primary.den, rate,
                       Abs(opposite.netAmountInCollectiveCurrency), opposite.den)
       /\ primary.amount < 0 /\ opposite.amount > 0 =>
            Reconciles(Abs(primary.netAmountInCollectiveCurrency), primary.den, rate,
                       opposite.amount, opposite.den)

\* C4 witness: a group in two currencies whose legs differ by a rounding, the
\* net amount of the DEBIT leg not being a whole number after conversion.
C4_Witness ==
  \E c \in BothCreated :
    /\ PrimaryRow(c).amount < 0 /\ OppositeRow(c).amount > 0
    /\ PrimaryRow(c).currency # OppositeRow(c).currency
    /\ LET rate == RecordedFxRate(OppositeRow(c))
       IN ~Divides(rate[2], PrimaryRow(c).netAmountInCollectiveCurrency * rate[1])

\* C5: once no call is running, every TransactionGroup of the
\* ledger is carried by at least two rows.
C5_EveryGroupHasTwoRows ==
  Quiet => \A i \in Rows : Cardinality(GroupRows(ledger[i].TransactionGroup)) >= 2

\* C6: every row persisted by createDoubleEntry has amountInHostCurrency =
\* amount * hostCurrencyFxRate, rounded to the nearest integer.
C6_AmountInHostCurrency ==
  \A i \in Rows :
    ledger[i].amountInHostCurrency =
      Round(ledger[i].amount * ledger[i].hostCurrencyFxRate[1],
            ledger[i].den * ledger[i].hostCurrencyFxRate[2])

\* The scenario: U1 is active and in USD, C1 pays it an expense of $10 with $1
\* of PayPal fees
Scenario(c, net) ==
  /\ calls[c].op = "createDoubleEntry"
  /\ calls[c].pc = "done"
  /\ calls[c].input.amount = -1000
  /\ calls[c].input.netAmountInCollectiveCurrency = net
  /\ calls[c].input.currency = "USD"
  /\ calls[c].input.FromCollectiveId = "U1"
  /\ calls[c].input.CollectiveId = "C1"
  /\ calls[c].input.paymentProcessorFeeInHostCurrency = -100

ScenarioRows(c) ==
  /\ PrimaryRow(c).type = DEBIT
  /\ PrimaryRow(c).CollectiveId = "C1"
  /\ PrimaryRow(c).amount = -1000
  /\ PrimaryRow(c).netAmountInCollectiveCurrency = -1100
  /\ PrimaryRow(c).den = 1
  /\ OppositeRow(c).type = CREDIT
  /\ OppositeRow(c).CollectiveId = "U1"
  /\ OppositeRow(c).amount = 1100
  /\ OppositeRow(c).netAmountInCollectiveCurrency = 1000
  /\ OppositeRow(c).den = 1

\* C7 as stated: the intent {amount: -1000, USD, from U1, to C1, payment
\* processor fee -100}, with no net amount, gives a primary DEBIT row of
\* amount -1000 and net amount -1100 and an opposite CREDIT row on U1 of
\* amount 1100 and net amount 1000.
C7_ScenarioWithoutNetAmount ==
  \A c \in CallIds : Scenario(c, 0) => ScenarioRows(c)

\* C7 as amended: the same intent with netAmountInCollectiveCurrency: -1100
\* gives those two rows.
C7_ScenarioWithNetAmount ==
  \A c \in CallIds : Scenario(c, -1100) => ScenarioRows(c)

\* C7 witness: the call of the amended scenario has returned.
C7_Witness ==
  \E c \in CallIds : Scenario(c, -1100)

\* C8: when fromCollective is not active, the opposite row has the currency of
\* the primary row, no host, amount = -(net amount of the primary), net amount
\* = -(amount of the primary), and createDoubleEntry looked no rate up.
C8_OppositeOfInactive ==
  \A c \in BothCreated :
    ~Collective[PrimaryRow(c).FromCollectiveId].isActive =>
      /\ OppositeRow(c).currency = PrimaryRow(c).currency
      /\ OppositeRow(c).HostCollectiveId = Null
      /\ OppositeRow(c).amount = -PrimaryRow(c).netAmountInCollectiveCurrency
      /\ OppositeRow(c).netAmountInCollectiveCurrency = -PrimaryRow(c).amount
      /\ OppositeRow(c).den = PrimaryRow(c).den
      /\ OppositeRow(c).data.oppositeTransactionCurrencyFxRate = NoRate
      /\ calls[c].fxLookups = 0

\* C8 witness: both rows exist for an inactive fromCollective, the primary
\* having a host and a net amount other than its amount.
C8_Witness ==
  \E c \in BothCreated :
    /\ ~Collective[PrimaryRow(c).FromCollectiveId].isActive
    /\ PrimaryRow(c).HostCollectiveId # Null
    /\ PrimaryRow(c).netAmountInCollectiveCurrency # PrimaryRow(c).amount

\* C9: when fromCollective is active, the opposite row has the currency and
\* the host of fromCollective, amount = -round(net amount of the primary *
\* rate), net amount = -round(amount of the primary * rate), with rate the
\* rate from the currency of the primary to that of fromCollective, which
\* data.oppositeTransactionCurrencyFxRate records beside the other keys of
\* the primary's data.
C9_OppositeOfActive ==
  \A c \in BothCreated :
    LET primary == PrimaryRow(c)
        opposite == OppositeRow(c)
        fromCollective == Collective[primary.FromCollectiveId]
        rate == IF primary.currency = fromCollective.currency THEN One
                ELSE IF primary.currency = "USD" THEN calls[c].fx.USDEUR
                ELSE calls[c].fx.EURUSD
    IN fromCollective.isActive =>
         /\ opposite.currency = fromCollective.currency
         /\ opposite.HostCollectiveId = fromCollective.HostCollectiveId
         /\ opposite.amount =
              -((2 * primary.netAmountInCollectiveCurrency * rate[1] + primary.den * rate[2])
                  \div (2 * primary.den * rate[2]))
         /\ opposite.netAmountInCollectiveCurrency =
              -((2 * primary.amount * rate[1] + primary.den * rate[2])
                  \div (2 * primary.den * rate[2]))
         /\ opposite.den = 1
         /\ opposite.data.oppositeTransactionCurrencyFxRate = rate
         /\ opposite.data.isFeesOnTop = primary.data.isFeesOnTop
         /\ opposite.data.note = primary.data.note
         /\ opposite.data.hostToPlatformFxRate = primary.data.hostToPlatformFxRate
         /\ calls[c].fxLookups = 1

\* C9 witness: both rows exist for an active fromCollective in another
\* currency, where the rounding matters: -1100 * 7/8 = -962.5, which
\* Math.round takes to -962.
C9_Witness ==
  \E c \in BothCreated :
    /\ Collective[PrimaryRow(c).FromCollectiveId].isActive
    /\ OppositeRow(c).currency # PrimaryRow(c).currency
    /\ OppositeRow(c).data.oppositeTransactionCurrencyFxRate = <<7, 8>>
    /\ PrimaryRow(c).netAmountInCollectiveCurrency = -1100
    /\ OppositeRow(c).amount = 962

\* C10: when a create of a call fails, no row written for the call remains.
C10_AllOrNothing ==
  \A c \in CallIds :
    calls[c].pc = "failed" =>
      \A i \in Rows : ledger[i].TransactionGroup \notin calls[c].groups

\* The call has written no row and has none to write
WroteNothing(c) ==
  /\ calls[c].groups = {}
  /\ calls[c].results = <<>>
  /\ calls[c].transactions = <<>>

\* C11: a createFromPayload whose transaction has amount 0, or whose
\* collective has no host while the transaction names none, fails and writes
\* no row, with or without fees on top.
C11_RejectedPayloadWritesNothing ==
  \A c \in CallIds :
    /\ calls[c].op = "createFromPayload"
    /\ \/ calls[c].input.amount = 0
       \/ /\ ~Collective[calls[c].input.CollectiveId].isHostAccount
          /\ Collective[calls[c].input.CollectiveId].HostCollectiveId = Null
          /\ calls[c].input.HostCollectiveId = Null
    => calls[c].pc = "failed" /\ WroteNothing(c)

\* C11 witness: one createFromPayload has failed on an amount of 0 with fees
\* on top, another on a collective without host, and the ledger is empty.
C11_Witness ==
  \E c \in CallIds, d \in CallIds :
    /\ calls[c].op = "createFromPayload" /\ calls[c].pc = "failed"
    /\ calls[c].input.amount = 0
    /\ calls[c].input.data.isFeesOnTop /\ calls[c].input.platformFeeInHostCurrency # 0
    /\ calls[d].op = "createFromPayload" /\ calls[d].pc = "failed"
    /\ calls[d].input.amount # 0
    /\ calls[d].input.CollectiveId = "C3"
    /\ ledger = <<>>

\* C12: a createFeesOnTopTransaction on a transaction whose data.isFeesOnTop
\* is not set fails, writes no row and leaves the fields of its argument as
\* they were.
C12_NotFlaggedFails ==
  \A c \in CallIds :
    /\ calls[c].op = "createFeesOnTopTransaction"
    /\ ~calls[c].input.data.isFeesOnTop
    => /\ calls[c].pc = "failed"
       /\ WroteNothing(c)
       /\ calls[c].argument = calls[c].input

\* C12 witness: such a call has failed on a transaction with a platform fee.
C12_Witness ==
  \E c \in CallIds :
    /\ calls[c].op = "createFeesOnTopTransaction"
    /\ calls[c].pc = "failed"
    /\ ~calls[c].input.data.isFeesOnTop
    /\ calls[c].input.platformFeeInHostCurrency # 0

\* C13: a createFeesOnTopTransaction on a flagged transaction whose platform
\* fee is 0 writes no row and returns its argument, unchanged.
C13_ZeroFeeReturnsInput ==
  \A c \in CallIds :
    /\ calls[c].op = "createFeesOnTopTransaction"
    /\ calls[c].input.data.isFeesOnTop
    /\ calls[c].input.platformFeeInHostCurrency = 0
    => /\ calls[c].pc = "done"
       /\ WroteNothing(c)
       /\ calls[c].argument = calls[c].input
       /\ calls[c].value = calls[c].input

\* The calls that have split a transaction with fees on top and are done
SplitCalls ==
  {c \in CallIds :
     /\ calls[c].op \in {"createFromPayload", "createFeesOnTopTransaction"}
     /\ calls[c].pc = "done"
     /\ calls[c].input.data.isFeesOnTop
     /\ calls[c].input.platformFeeInHostCurrency # 0}

\* The donation that call c has split off: the row of its groups on the
\* ledger of the platform
DonationEntry(c) ==
  ledger[CHOOSE i \in Rows :
           /\ ledger[i].TransactionGroup \in calls[c].groups
           /\ ledger[i].CollectiveId = PlatformCollectiveId]

\* The main transaction that the split has left: the value that
\* createFeesOnTopTransaction returned, or the primary row that
\* createFromPayload created from it
MainEntry(c) ==
  IF calls[c].op = "createFeesOnTopTransaction"
  THEN calls[c].value
  ELSE ledger[calls[c].returned]

\* main amount + donation amount, the latter taken back to the currency of
\* the transaction with the rate it was converted with, is the amount given
AmountConserved(c) ==
  LET rate == getFxRate(calls[c].fx, calls[c].input.currency, PlatformCurrency)
      main == MainEntry(c)
  IN main.amount * rate[1] + DonationEntry(c).amount * rate[2] * main.den
       = calls[c].input.amount * main.den * rate[1]

ProcessorFeeConserved(c) ==
  MainEntry(c).paymentProcessorFeeInHostCurrency
    + DonationEntry(c).paymentProcessorFeeInHostCurrency
    = ToNegative(calls[c].input.paymentProcessorFeeInHostCurrency)

\* C14: after a split, main amount + donation amount (in the currency of the
\* transaction) is the amount of the transaction given, the main transaction
\* has platform fee 0, and its processor fee plus the donation's is the
\* processor fee given.
C14_SplitConservesAmount ==
  \A c \in SplitCalls :
    /\ AmountConserved(c)
    /\ MainEntry(c).platformFeeInHostCurrency = 0
    /\ ProcessorFeeConserved(c)

----------------------------------------------------------------------------
(* Properties of the expense mutations *)

\* The request has failed and has changed nothing: the expenses and the
\* ledger are as before, and no payment provider was called
Failed(outcome) ==
  /\ outcome.error # NoError
  /\ outcome.expenses = expenses
  /\ outcome.ledger = ledger
  /\ outcome.providerCalls = <<>>

\* The rows of the ledger that carry the expense
ExpenseRows(id) == {i \in Rows : ledger[i].ExpenseId = id}

\* C15: every payExpense on a PAID expense fails, and every
\* markExpenseAsUnpaid on a PENDING expense fails; the status is unchanged, no
\* payment provider is called and no row, of a payment or of a refund, is
\* written.
C15_PaidAndPendingRejected ==
  \A id \in DOMAIN expenses, req \in Requests :
    /\ expenses[id].status = statuses.PAID
       => \A args \in PayArgs, env \in PayEnvs :
            Failed(payExpenseOutcome(req, id, args, env))
    /\ expenses[id].status = statuses.PENDING
       => \A processorFeeRefunded \in BOOLEAN, found \in Found(id), created \in 0..2 :
            Failed(markExpenseAsUnpaidOutcome(req, id, processorFeeRefunded, found, created))

\* C15 witness: an expense that payExpense has paid, its rows on the ledger,
\* which the host admin asks to pay again, and is told that it is paid.
C15_Witness ==
  \E id \in DOMAIN expenses, req \in Requests, args \in PayArgs, env \in PayEnvs :
    /\ expenses[id].status = statuses.PAID
    /\ ExpenseRows(id) # {}
    /\ req.can
    /\ payExpenseOutcome(req, id, args, env).error.message = "Expense has already been paid"

\* The outcomes of the two requests that set an expense to PAID: every
\* payExpense, and every updateExpenseStatus with status PAID; and the
\* outcomes of those that the user has the permission to make
ToPaid(req, id) ==
  {payExpenseOutcome(req, id, args, env) : args \in PayArgs, env \in PayEnvs}
    \cup {updateExpenseStatusOutcome(req, id, statuses.PAID)}

\* The outcome leaves the expense PAID, which it was not
MovesToPaid(outcome, id) ==
  /\ outcome.expenses[id].status = statuses.PAID
  /\ expenses[id].status # statuses.PAID

\* The request has failed with an error that tells the status of the expense
FailedOnStatus(outcome, id) ==
  /\ outcome.error # NoError
  /\ expenses[id].status \in outcome.error.mentions

\* C16: an expense moves to PAID, by payExpense or by updateExpenseStatus
\* with status PAID, only from APPROVED; from any other status the request,
\* made by a user who may make it, fails with an error that names the status
\* of the expense, and the status is unchanged.
C16_PaidOnlyFromApproved ==
  \A id \in DOMAIN expenses, req \in Requests :
    \A outcome \in ToPaid(req, id) :
      /\ MovesToPaid(outcome, id) => expenses[id].status = statuses.APPROVED
      /\ expenses[id].status # statuses.APPROVED
         => /\ outcome.expenses = expenses
            /\ req.can => FailedOnStatus(outcome, id)

\* C16 as the code has it: an expense moves to PAID only from APPROVED, and
\* on any other status the two requests leave the status as it is. A
\* payExpense that the user may make then fails with an error that tells the
\* status. An updateExpenseStatus with status PAID that the user may make
\* fails without naming the status on PENDING and REJECTED, fails with the
\* status named on PROCESSING, and returns the expense without an error on
\* PAID.
C16_PaidOnlyFromApprovedAmended ==
  \A id \in DOMAIN expenses, req \in Requests :
    /\ \A outcome \in ToPaid(req, id) :
         /\ MovesToPaid(outcome, id) => expenses[id].status = statuses.APPROVED
         /\ expenses[id].status # statuses.APPROVED => outcome.expenses = expenses
    /\ expenses[id].status # statuses.APPROVED /\ req.can
       => /\ \A args \in PayArgs, env \in PayEnvs :
               FailedOnStatus(payExpenseOutcome(req, id, args, env), id)
          /\ LET outcome == updateExpenseStatusOutcome(req, id, statuses.PAID)
             IN CASE expenses[id].status \in {statuses.PENDING, statuses.REJECTED}
                       -> /\ outcome.error.name = "Unauthorized"
                          /\ outcome.error.mentions = {}
                  [] expenses[id].status = statuses.PROCESSING
                       -> FailedOnStatus(outcome, id)
                  [] expenses[id].status = statuses.PAID
                       -> outcome.error = NoError

\* C16 witness: a REJECTED expense, which a user who may do both asks to pay
\* and to set to PAID: the first request fails on the status REJECTED, the
\* second because the expense is not approved.
C16_Witness ==
  \E id \in DOMAIN expenses, req \in Requests, args \in PayArgs, env \in PayEnvs :
    /\ expenses[id].status = statuses.REJECTED
    /\ req.can
    /\ payExpenseOutcome(req, id, args, env).error.mentions = {statuses.REJECTED}
    /\ updateExpenseStatusOutcome(req, id, statuses.PAID).error.message
         = "The expense must be approved before you can set it to paid"

\* The outcomes of the requests on an expense
UpdateOutcomes(id) ==
  {updateExpenseStatusOutcome(req, id, status) : req \in Requests, status \in StatusArgs}
EditOutcomes(id) ==
  {editExpenseOutcome(req, id, expenseData) : req \in Requests, expenseData \in Edits}
PayOutcomes(id) ==
  {payExpenseOutcome(req, id, args, env) :
     req \in Requests, args \in PayArgs, env \in PayEnvs}
UnpayOutcomes(id) ==
  {markExpenseAsUnpaidOutcome(req, id, processorFeeRefunded, found, created) :
     req \in Requests, processorFeeRefunded \in BOOLEAN, found \in Found(id),
     created \in 0..2}
Outcomes(id) ==
  UpdateOutcomes(id) \cup EditOutcomes(id) \cup PayOutcomes(id) \cup UnpayOutcomes(id)

\* REJECTED is entered from PENDING and APPROVED only
RejectedFromPendingOrApproved(id) ==
  \A outcome \in Outcomes(id) :
    /\ outcome.expenses[id].status = statuses.REJECTED
    /\ expenses[id].status # statuses.REJECTED
    => expenses[id].status \in {statuses.PENDING, statuses.APPROVED}

\* C17: REJECTED is entered from PENDING or APPROVED only, and it is
\* terminal: no updateExpenseStatus, editExpense, payExpense or
\* markExpenseAsUnpaid changes the status of a REJECTED expense.
C17_RejectedIsTerminal ==
  \A id \in DOMAIN expenses :
    /\ RejectedFromPendingOrApproved(id)
    /\ expenses[id].status = statuses.REJECTED
       => \A outcome \in Outcomes(id) : outcome.expenses[id].status = statuses.REJECTED

\* The user may make the request
Permitted == {req \in Requests : req.can}

\* C17 as the code has it: REJECTED is entered from PENDING or APPROVED
\* only, and payExpense and markExpenseAsUnpaid fail on a REJECTED expense
\* and leave it REJECTED; but updateExpenseStatus moves it to PENDING,
\* APPROVED or PROCESSING when the user may update it (not to PAID), and an
\* editExpense that succeeds moves it to PENDING when it changes the amount,
\* the items or the payout method.
C17_RejectedIsLeft ==
  \A id \in DOMAIN expenses :
    /\ RejectedFromPendingOrApproved(id)
    /\ expenses[id].status = statuses.REJECTED
       => /\ \A outcome \in PayOutcomes(id) \cup UnpayOutcomes(id) : Failed(outcome)
          /\ \A req \in Permitted, status \in StatusKeys :
               updateExpenseStatusOutcome(req, id, status).expenses[id].status
                 = IF status = statuses.PAID THEN statuses.REJECTED ELSE status
          /\ \A req \in Requests, expenseData \in Edits :
               LET outcome == editExpenseOutcome(req, id, expenseData)
               IN outcome.expenses[id].status
                    = IF outcome.expenses[id] # expenses[id]
                      THEN statuses.PENDING ELSE statuses.REJECTED

\* C17 witness: a REJECTED expense that an updateExpenseStatus approves
\* again and that an editExpense of its amount makes PENDING.
C17_Witness ==
  \E id \in DOMAIN expenses, req \in Requests :
    /\ expenses[id].status = statuses.REJECTED
    /\ LET outcome == updateExpenseStatusOutcome(req, id, statuses.APPROVED)
       IN outcome.error = NoError /\ outcome.expenses[id].status = statuses.APPROVED
    /\ LET outcome == editExpenseOutcome(req, id, [amount |-> 5000])
       IN /\ outcome.error = NoError
          /\ outcome.expenses[id].amount # expenses[id].amount
          /\ outcome.expenses[id].status = statuses.PENDING

\* The edit gives an amount, items or a payout method that the expense does
\* not have
ChangesExpense(expense, expenseData) ==
  \/ Has(expenseData, "amount") /\ expenseData.amount # expense.amount
  \/ Has(expenseData, "items") /\ expenseData.items # expense.items
  \/ Has(expenseData, "PayoutMethod") /\ expenseData.PayoutMethod # expense.PayoutMethodId

\* C18: an editExpense that succeeds on an expense that is not PAID and that
\* changes the amount, the items or the id of the payout method leaves the
\* expense PENDING, whatever its status was; one that changes none of them
\* leaves the status as it was.
C18_EditResetsToPending ==
  \A id \in DOMAIN expenses, req \in Requests, expenseData \in Edits :
    LET outcome == editExpenseOutcome(req, id, expenseData)
    IN expenses[id].status # statuses.PAID /\ outcome.error = NoError
       => outcome.expenses[id].status
            = IF ChangesExpense(expenses[id], expenseData)
              THEN statuses.PENDING ELSE expenses[id].status

\* C18 witness: an APPROVED expense of 10000 with a PayPal payout method,
\* which an edit of its amount alone makes PENDING.
C18_Witness ==
  \E id \in DOMAIN expenses, req \in Requests :
    LET outcome == editExpenseOutcome(req, id, [amount |-> 5000])
    IN /\ expenses[id].status = statuses.APPROVED
       /\ expenses[id].amount = 10000
       /\ expenses[id].PayoutMethodId = 2
       /\ outcome.error = NoError
       /\ outcome.expenses[id].amount = 5000
       /\ outcome.expenses[id].items = expenses[id].items
       /\ outcome.expenses[id].status = statuses.PENDING

\* The calls that ask a payment provider to pay
PayCalls == {"paypal.pay", "transferwise.payExpense"}

\* The calls of the outcome
CallsOf(outcome) == {outcome.providerCalls[i] : i \in DOMAIN outcome.providerCalls}

\* The request has failed for a lack of funds, telling the amounts named:
\* no provider was asked to pay, no row is written and the status is as it was
FailedForFunds(outcome, amounts) ==
  /\ outcome.error # NoError
  /\ amounts \subseteq outcome.error.mentions
  /\ CallsOf(outcome) \cap PayCalls = {}
  /\ outcome.ledger = ledger
  /\ outcome.expenses = expenses

\* A payExpense on an APPROVED expense by a user who may pay it succeeds only
\* if the balance is at least the amount plus the fee estimated
PaidWithinBalance(id, req, args, env) ==
  payExpenseOutcome(req, id, args, env).error = NoError
    => /\ EstimatedFees(expenses[id], args, env).error = NoError
       /\ expenses[id].amount + EstimatedFees(expenses[id], args, env).fee
            <= getBalance(expenses[id].CollectiveId)

\* The balance is below the amount, or the fee is estimated and the balance
\* is below the amount plus the fee
LacksFunds(id, args, env) ==
  \/ expenses[id].amount > getBalance(expenses[id].CollectiveId)
  \/ /\ EstimatedFees(expenses[id], args, env).error = NoError
     /\ expenses[id].amount + EstimatedFees(expenses[id], args, env).fee
          > getBalance(expenses[id].CollectiveId)

\* C19: payExpense succeeds only if the balance of the collective is at least
\* the amount of the expense plus the estimated payment processor fee;
\* otherwise it fails reporting the balance, the amount and the fee, asks no
\* provider to pay, writes no row and leaves the expense APPROVED.
C19_InsufficientFundsReported ==
  \A id \in DOMAIN expenses, req \in Permitted, args \in PayArgs, env \in PayEnvs :
    expenses[id].status = statuses.APPROVED
    => /\ PaidWithinBalance(id, req, args, env)
       /\ LacksFunds(id, args, env)
          => FailedForFunds(payExpenseOutcome(req, id, args, env),
                            {"balance", "amount", "fees"})

\* C19 as the code has it: the same, but a balance below the amount alone is
\* reported with the balance and the amount only, before any fee is
\* estimated and any provider is called; the fee is reported when the
\* balance covers the amount and not the amount plus the fee.
C19_InsufficientFundsReportedAmended ==
  \A id \in DOMAIN expenses, req \in Permitted, args \in PayArgs, env \in PayEnvs :
    expenses[id].status = statuses.APPROVED
    => /\ PaidWithinBalance(id, req, args, env)
       /\ LacksFunds(id, args, env)
          => LET outcome == payExpenseOutcome(req, id, args, env)
             IN IF expenses[id].amount > getBalance(expenses[id].CollectiveId)
                THEN /\ FailedForFunds(outcome, {"balance", "amount"})
                     /\ outcome.error.mentions = {"balance", "amount"}
                     /\ outcome.providerCalls = <<>>
                ELSE FailedForFunds(outcome, {"balance", "amount", "fees"})

\* C19 witness: an APPROVED expense of 10000 of a collective whose balance is
\* 9999, which its host admin asks to pay and is told of the lack of funds.
C19_Witness ==
  \E id \in DOMAIN expenses, req \in Permitted, args \in PayArgs, env \in PayEnvs :
    /\ expenses[id].status = statuses.APPROVED
    /\ expenses[id].amount = 10000
    /\ getBalance(expenses[id].CollectiveId) = 9999
    /\ payExpenseOutcome(req, id, args, env).error.message
         = "You don't have enough funds to pay this expense."

\* The payExpense that succeed on an expense paid by bank transfer, without
\* forceManual
BankTransfers(id) ==
  {outcome \in {payExpenseOutcome(req, id, args, env) :
                  req \in Requests, args \in {a \in PayArgs : ~a.forceManual},
                  env \in PayEnvs} :
     /\ PayoutMethodTypeOf(expenses[id]) = PayoutMethodTypes.BANK_ACCOUNT
     /\ outcome.error = NoError}

\* C20: after a payExpense that succeeds on an expense with a BANK_ACCOUNT
\* payout method, without forceManual, the expense is PROCESSING, not PAID,
\* and no row of the expense has been written to the ledger.
C20_ProcessingPostsNothing ==
  \A id \in DOMAIN expenses :
    \A outcome \in BankTransfers(id) :
      /\ outcome.expenses[id].status = statuses.PROCESSING
      /\ outcome.ledger = ledger

\* C20 as the code has it: the expense is PROCESSING, not PAID, and the call
\* has written the two rows of the expense, with the fee that the provider
\* quoted, after the provider took the transfer.
C20_ProcessingHasPosted ==
  \A id \in DOMAIN expenses :
    \A outcome \in BankTransfers(id) :
      /\ outcome.expenses[id].status = statuses.PROCESSING
      /\ outcome.providerCalls = <<"transferwise.getTemporaryQuote", "transferwise.payExpense">>
      /\ Len(outcome.ledger) = Len(ledger) + 2
      /\ SubSeq(outcome.ledger, 1, Len(ledger)) = ledger
      /\ \A i \in Len(ledger) + 1 .. Len(ledger) + 2 :
           /\ outcome.ledger[i].ExpenseId = id
           /\ outcome.ledger[i].paymentProcessorFeeInHostCurrency = -QuoteFee
           /\ Abs(outcome.ledger[i].amount) \in
                {expenses[id].amount, expenses[id].amount + QuoteFee}

\* C20 witness: a PROCESSING expense with a BANK_ACCOUNT payout method and
\* its two rows on the ledger, none refunded.
C20_Witness ==
  \E id \in DOMAIN expenses :
    /\ expenses[id].status = statuses.PROCESSING
    /\ PayoutMethodTypeOf(expenses[id]) = PayoutMethodTypes.BANK_ACCOUNT
    /\ Cardinality(ExpenseRows(id)) = 2
    /\ \A i \in ExpenseRows(id) :
         /\ ledger[i].paymentProcessorFeeInHostCurrency = -QuoteFee
         /\ ledger[i].RefundTransactionId = NoRefund

\* The host of the payee of the expense is not the host of its collective:
\* the payee has none, or another
PayeeOffHost(expense) ==
  Collective[expense.FromCollectiveId].HostCollectiveId # HostOf(expense.CollectiveId)

\* C21: a payExpense on an expense with an ACCOUNT_BALANCE payout method
\* whose payee has no host, or a host other than the host of the collective,
\* fails; no row is written and the expense stays APPROVED.
C21_AccountBalanceNeedsSameHost ==
  \A id \in DOMAIN expenses, req \in Requests, args \in PayArgs, env \in PayEnvs :
    /\ expenses[id].status = statuses.APPROVED
    /\ PayoutMethodTypeOf(expenses[id]) = PayoutMethodTypes.ACCOUNT_BALANCE
    /\ PayeeOffHost(expenses[id])
    => LET outcome == payExpenseOutcome(req, id, args, env)
       IN /\ outcome.error # NoError
          /\ outcome.ledger = ledger
          /\ outcome.expenses = expenses

\* The errors of a payout on the balance of a payee off the host
NoHostError ==
  "The payee needs to have an Host to able to be paid on its Open Collective balance."
OtherHostError ==
  "The payee needs to be on the same Host than the payer to be paid on its Open Collective balance."

\* C21 witness: an APPROVED expense to be paid on the balance of a payee
\* whose host is not that of the collective, which has the funds; the host
\* admin asks to pay it and is told of the host of the payee.
C21_Witness ==
  \E id \in DOMAIN expenses, req \in Permitted, args \in PayArgs, env \in PayEnvs :
    /\ expenses[id].status = statuses.APPROVED
    /\ expenses[id].PayoutMethodId = 6
    /\ Collective[expenses[id].FromCollectiveId].HostCollectiveId = "H2"
    /\ payExpenseOutcome(req, id, args, env).error.message = OtherHostError

\* A call to a payment provider has failed in the request: the quote or the
\* payment that it asked for
ProviderFailed(outcome, env) ==
  \/ "transferwise.getTemporaryQuote" \in CallsOf(outcome) /\ ~env.quoted
  \/ CallsOf(outcome) \cap PayCalls # {} /\ ~env.paid

\* C22: when the quote of TransferWise, its payExpense or the pay of PayPal
\* fails in a payExpense, the request fails, the expense stays APPROVED and
\* no row of the expense is written; and a request that asks a provider to
\* pay makes the expense PROCESSING or PAID only if the provider has paid.
C22_ProviderFailureChangesNothing ==
  \A id \in DOMAIN expenses, req \in Requests, args \in PayArgs, env \in PayEnvs :
    LET outcome == payExpenseOutcome(req, id, args, env)
    IN /\ ProviderFailed(outcome, env)
          => /\ outcome.error # NoError
             /\ expenses[id].status = statuses.APPROVED
             /\ outcome.expenses = expenses
             /\ outcome.ledger = ledger
       /\ CallsOf(outcome) \cap PayCalls # {} /\ outcome.expenses # expenses
          => /\ env.paid
             /\ outcome.expenses[id].status \in {statuses.PROCESSING, statuses.PAID}

\* C22 witness: an APPROVED expense to be paid with PayPal by a host with a
\* PayPal account and the funds; PayPal is asked to pay and fails, and so
\* does the request, with the BadRequest that payExpenseWithPayPal throws.
C22_Witness ==
  \E id \in DOMAIN expenses, req \in Permitted, args \in PayArgs, env \in PayEnvs :
    LET outcome == payExpenseOutcome(req, id, args, env)
    IN /\ expenses[id].status = statuses.APPROVED
       /\ PayoutMethodTypeOf(expenses[id]) = PayoutMethodTypes.PAYPAL
       /\ ~env.paid
       /\ outcome.providerCalls = <<"paypal.pay">>
       /\ outcome.error.name = "BadRequest"

\* The request to payExpense has ended, and has asked a payment provider to
\* pay, or has written rows
PaidByProvider(c) ==
  /\ calls[c].op = "payExpense" /\ calls[c].pc \in {"done", "failed"}
  /\ {calls[c].providerCalls[i] : i \in DOMAIN calls[c].providerCalls} \cap PayCalls # {}
Posted(c) ==
  /\ calls[c].op = "payExpense" /\ calls[c].pc \in {"done", "failed"}
  /\ calls[c].rows > 0

\* C23: of two payExpense that run together on one APPROVED expense (the
\* second begins when the first has checked the expense and not paid it yet),
\* at most one asks the payment provider to pay and at most one writes rows
\* for the expense; the other one fails.
C23_OnePaymentPerExpense ==
  \A c \in CallIds : \A d \in CallIds :
    (/\ calls[c].op = "payExpense" /\ calls[c].pc \in {"done", "failed"}
     /\ calls[d].op = "payExpense" /\ calls[d].pc \in {"done", "failed"}
     /\ d \in calls[c].during)
    => /\ ~(PaidByProvider(c) /\ PaidByProvider(d))
       /\ ~(Posted(c) /\ Posted(d))
       /\ calls[c].pc = "failed" \/ calls[d].pc = "failed"

\* updateExpenseStatus ends as it does when the activity is written
StatusUpdatedUnrecorded ==
  \A req \in Requests, expenseId \in ExpenseIds, status \in StatusArgs :
    updateExpenseStatusActivity(req, expenseId, status, FALSE)
      = updateExpenseStatusActivity(req, expenseId, status, TRUE)

\* payExpense ends as it does when the activity is written
PaidUnrecorded ==
  \A id \in DOMAIN expenses, req \in Requests, args \in PayArgs, env \in PayEnvs :
    payExpenseOutcome(req, id, args, [env EXCEPT !.recorded = FALSE])
      = payExpenseOutcome(req, id, args, [env EXCEPT !.recorded = TRUE])

\* markExpenseAsUnpaid ends as it does when the activity is written
UnpaidUnrecorded ==
  \A ExpenseId \in ExpenseIds, req \in Requests, processorFeeRefunded \in BOOLEAN :
    \A found \in Found(ExpenseId), created \in 0..2 :
      LET outcome == markExpenseAsUnpaidOutcome(req, ExpenseId, processorFeeRefunded,
                                                found, created)
      IN createActivity(outcome, FALSE) = outcome

Refunded(outcome, found) ==
  /\ Len(outcome.ledger) = Len(ledger) + 2
  /\ \A i \in 1..Len(ledger) :
       outcome.ledger[i]
         = [ledger[i] EXCEPT !.RefundTransactionId = outcome.ledger[i].RefundTransactionId]
  /\ LET refund == outcome.ledger[found].RefundTransactionId
     IN /\ refund \in Len(ledger) + 1 .. Len(ledger) + 2
        /\ outcome.ledger[refund].RefundTransactionId = found
        /\ outcome.ledger[refund].isRefund
        /\ outcome.ledger[refund].ExpenseId = ledger[found].ExpenseId
        /\ outcome.ledger[refund].amount = -ledger[found].amount

\* C25: a markExpenseAsUnpaid that succeeds was asked for a PAID expense by a
\* caller that may mark it as unpaid; it adds the refund of a row of the
\* expense, makes the row and its refund name each other, sets the status to
\* APPROVED and leaves every row there was in the ledger. A caller that may
\* not mark the expense as unpaid is rejected, and nothing changes.
C25_UnpaidRefundsAndReapproves ==
  \A ExpenseId \in DOMAIN expenses, req \in Requests, processorFeeRefunded \in BOOLEAN :
    \A found \in Found(ExpenseId), created \in 0..2 :
      LET outcome == markExpenseAsUnpaidOutcome(req, ExpenseId, processorFeeRefunded,
                                                found, created)
      IN /\ outcome.error = NoError
            => /\ expenses[ExpenseId].status = statuses.PAID
               /\ req.can
               /\ outcome.expenses
                    = [expenses EXCEPT ![ExpenseId].status = statuses.APPROVED]
               /\ found \in TransactionsOf(ExpenseId)
               /\ Refunded(outcome, found)
         /\ ~req.can
            => /\ outcome.error # NoError
               /\ outcome.expenses = expenses
               /\ outcome.ledger = ledger

\* A PAID expense has been marked as unpaid: it is APPROVED, and a row of the
\* expense and its refund name each other
C25_Witness ==
  \E ExpenseId \in DOMAIN expenses :
    /\ expenses[ExpenseId].status = statuses.APPROVED
    /\ \E i \in TransactionsOf(ExpenseId), j \in TransactionsOf(ExpenseId) :
         /\ i < j
         /\ ~ledger[i].isRefund /\ ledger[j].isRefund
         /\ ledger[i].RefundTransactionId = j
         /\ ledger[j].RefundTransactionId = i

\* The rows of the expense in the balance of a collective that pay the
\* expense, and those that refund a payment of it
PaymentsOf(ExpenseId, CollectiveId) ==
  {i \in TransactionsOf(ExpenseId) :
     ledger[i].CollectiveId = CollectiveId /\ ~ledger[i].isRefund}
RefundsOf(ExpenseId, CollectiveId) ==
  {i \in TransactionsOf(ExpenseId) :
     ledger[i].CollectiveId = CollectiveId /\ ledger[i].isRefund}

\* A markExpenseAsUnpaid that finds a row which names its refund fails and
\* writes nothing
RefundedOnceOnly ==
  \A ExpenseId \in DOMAIN expenses, req \in Requests, processorFeeRefunded \in BOOLEAN :
    \A found \in TransactionsOf(ExpenseId), created \in 0..2 :
      LET outcome == markExpenseAsUnpaidOutcome(req, ExpenseId, processorFeeRefunded,
                                                found, created)
      IN ledger[found].RefundTransactionId # NoRefund
         => /\ outcome.error # NoError
            /\ outcome.ledger = ledger
            /\ outcome.expenses = expenses

\* C26: however an expense is paid and marked as unpaid, no row is refunded
\* more than once: in the balance of a collective where the expense has a
\* payment it has no more refunds than payments, and a markExpenseAsUnpaid
\* that finds a row which names its refund fails and writes nothing.
C26_NoEntryRefundedTwice ==
  /\ RefundedOnceOnly
  /\ \A ExpenseId \in DOMAIN expenses :
       \A i \in TransactionsOf(ExpenseId) :
         ~ledger[i].isRefund
         => Cardinality(RefundsOf(ExpenseId, ledger[i].CollectiveId))
              <= Cardinality(PaymentsOf(ExpenseId, ledger[i].CollectiveId))

\* The amounts of a row
AmountsOf(transaction) ==
  <<transaction.amount, transaction.amountInHostCurrency,
    transaction.netAmountInCollectiveCurrency>>
FeesOf(transaction) ==
  <<transaction.hostFeeInHostCurrency, transaction.platformFeeInHostCurrency,
    transaction.paymentProcessorFeeInHostCurrency>>

ItemsMakeAmount(amount, items) ==
  /\ Len(items) \in 1..100
  /\ getTotalAmountFromItems(items) = amount
  /\ getTotalAmountFromItems(items) # 0

\* The user of the request is logged in and may use expenses
MaySubmit == {req \in Requests : req.remoteUser # Null /\ req.canUseFeature}

\* C28: createExpense accepts an expense only when it has between 1 and 100
\* items whose sum is the amount of the expense and is not 0, and accepts such
\* an expense of a user that may submit it with no payout method; an expense
\* of 5000 with items 2000 and 3000 is accepted, with items 2000 and 2500 it
\* is rejected with a ValidationFailed that reports the amount and the sum of
\* the items; a rejection creates nothing.
C28_ItemsMustMakeAmount ==
  /\ \A req \in Requests, expenseData \in SubmittedData :
       LET outcome == createExpenseOutcome(req, expenseData)
       IN /\ outcome.error = NoError
             => /\ ItemsMakeAmount(expenseData.amount, expenseData.items)
                /\ Len(outcome.expenses) = Len(expenses) + 1
                /\ outcome.expenses[Len(expenses) + 1].amount = expenseData.amount
                /\ outcome.expenses[Len(expenses) + 1].items = expenseData.items
          /\ outcome.error # NoError
             => outcome.expenses = expenses /\ outcome.ledger = ledger
          /\ (req \in MaySubmit /\ ~Has(expenseData, "PayoutMethod")
              /\ ItemsMakeAmount(expenseData.amount, expenseData.items))
             => outcome.error = NoError
  /\ \A req \in MaySubmit :
       /\ createExpenseOutcome(req, [amount |-> 5000, items |-> <<2000, 3000>>]).error
            = NoError
       /\ LET error == createExpenseOutcome(req, [amount |-> 5000,
                                                  items |-> <<2000, 2500>>]).error
          IN /\ error.name = "ValidationFailed"
             /\ {"amount", "sumItems"} \subseteq error.mentions

\* An expense of 5000 with items 2000 and 3000 has been created, or one of 100
\* items
C28_Witness ==
  \E id \in DOMAIN expenses :
    /\ expenses[id].status = statuses.PENDING
    /\ expenses[id].items \in {<<2000, 3000>>, [i \in 1..MaxItems |-> 1]}
    /\ expenses[id].amount = getTotalAmountFromItems(expenses[id].items)

\* C29: after createExpense and editExpense, of the amount alone, of the items
\* alone or of both, the amount of every expense is positive and is the sum
\* of its items.
C29_AmountIsSumOfItems ==
  \A id \in DOMAIN expenses :
    /\ expenses[id].amount > 0
    /\ expenses[id].amount = getTotalAmountFromItems(expenses[id].items)

\* The request fails with Unauthorized and changes nothing: the expenses
\* and the ledger are as before and no provider is called
Denied(outcome) ==
  /\ outcome.error.name = "Unauthorized"
  /\ outcome.expenses = expenses
  /\ outcome.ledger = ledger
  /\ outcome.providerCalls = <<>>

\* The request has no user, or the mutation gets to its capability check for
\* the expense (asked is what comes before the check), which answers false
Refused(req, id, asked) ==
  \/ req.remoteUser = Null
  \/ /\ req \in MaySubmit
     /\ id \in FoundExpenses
     /\ asked
     /\ ~req.can

\* C30: a mutation whose request has no user, or whose capability check
\* (canUpdateExpenseStatus, canEditExpense, canPayExpense, canMarkAsUnpaid,
\* canDeleteExpense) answers false, fails with Unauthorized and changes
\* nothing: the expenses and the ledger are as before, and no provider is
\* called.
C30_RefusedChangesNothing ==
  \A req \in Requests, id \in ExpenseIds :
    /\ \A status \in StatusArgs :
         Refused(req, id, status \in StatusKeys
                          /\ expenses[id].status # statuses.PROCESSING)
         => \A recorded \in BOOLEAN :
              Denied(updateExpenseStatusActivity(req, id, status, recorded))
    /\ \A expenseData \in SubmittedEdits :
         Refused(req, id, TRUE)
         => \A recorded \in BOOLEAN :
              Denied(createActivity(editExpenseOutcome(req, id, expenseData), recorded))
    /\ \A args \in PayArgs, env \in PayEnvs :
         Refused(req, id, expenses[id].status = statuses.APPROVED)
         => Denied(payExpenseOutcome(req, id, args, env))
    /\ \A processorFeeRefunded \in BOOLEAN, found \in Found(id), created \in 0..2 :
         Refused(req, id, TRUE)
         => \A recorded \in BOOLEAN :
              Denied(createActivity(markExpenseAsUnpaidOutcome(req, id, processorFeeRefunded,
                                                               found, created),
                                    recorded))
    /\ Refused(req, id, TRUE) => Denied(deleteExpenseOutcome(req, id))

\* An expense is there and approved: each of the mutations gets to its
\* capability check for it
C30_Witness ==
  \E id \in FoundExpenses : expenses[id].status = statuses.APPROVED

----------------------------------------------------------------------------
(* Stored values of the ledger *)

\* The amounts of a row are whole numbers of minor units: the fee fields and
\* amountInHostCurrency are integers by construction, amount and
\* netAmountInCollectiveCurrency are numerators over den
WholeAmounts(row) ==
  /\ Divides(row.den, row.amount)
  /\ Divides(row.den, row.netAmountInCollectiveCurrency)

\* The rows that the calls of createFromPayload and createDoubleEntry have
\* created
RowsCreatedBy(ops) ==
  {i \in Rows : \E c \in CallIds : /\ calls[c].op \in ops
                                  /\ ledger[i].TransactionGroup \in calls[c].groups}

\* C31: every monetary field of every row persisted by createFromPayload or
\* createDoubleEntry is an integer number of minor units when the inputs are
\* integers, whatever the FX rate, the main row after a fees-on-top split
\* with hostCurrencyFxRate other than 1 included.
C31_AmountsAreIntegers ==
  \A i \in RowsCreatedBy({"createFromPayload", "createDoubleEntry"}) :
    WholeAmounts(ledger[i])

\* The three fees of a row are stored as numbers <= 0
FeesAreNegative(row) ==
  /\ row.hostFeeInHostCurrency <= 0
  /\ row.platformFeeInHostCurrency <= 0
  /\ row.paymentProcessorFeeInHostCurrency <= 0

\* C32: every row persisted through createFromPayload or creditHost stores
\* its host fee, platform fee and payment processor fee as values <= 0,
\* whatever sign the caller gave them; so does the main row of a fees-on-top
\* split, from whose processor fee the share of the donation was subtracted.
C32_FeesAreStoredNegative ==
  \A i \in RowsCreatedBy({"createFromPayload", "creditHost"}) :
    FeesAreNegative(ledger[i])

\* A createFromPayload given positive fees has split the transaction and
\* created its four rows, the main row with what is left of the processor fee
C32_Witness ==
  \E c \in SplitCalls :
    /\ calls[c].op = "createFromPayload"
    /\ calls[c].input.paymentProcessorFeeInHostCurrency > 0
    /\ calls[c].input.platformFeeInHostCurrency > 0
    /\ Len(calls[c].results) = 2
    /\ Cardinality(calls[c].groups) = 2
    /\ ledger[calls[c].returned].paymentProcessorFeeInHostCurrency < 0
    /\ ledger[calls[c].returned].platformFeeInHostCurrency = 0

\* The transaction that call c has handed to createDoubleEntry: its input,
\* or what createFromPayload has made of an input that it does not split
Supplied(c) ==
  IF calls[c].op = "createFromPayload"
  THEN WithNetAmount(PayloadTransaction(
         [FromCollectiveId |-> calls[c].input.FromCollectiveId,
          CollectiveId |-> calls[c].input.CollectiveId,
          transaction |-> calls[c].input]))
  ELSE calls[c].input

\* The net amount of the transaction is set: createFromPayload sets it for
\* every donation (line 558), a caller of createDoubleEntry by giving one
NetAmountSet(c) ==
  \/ calls[c].op = "createFromPayload" /\ calls[c].input.amount > 0
  \/ calls[c].input.netAmountInCollectiveCurrency # 0

\* The calls that have gone through one createDoubleEntry and returned
EnteredOnce ==
  {c \in CallIds :
     /\ calls[c].op \in {"createDoubleEntry", "createFromPayload"}
     /\ calls[c].pc = "done"
     /\ ~HasFeesOnTop(Supplied(c))}

\* C33: createDoubleEntry sets netAmountInCollectiveCurrency to amount only
\* when the transaction leaves it unset, and hostCurrencyFxRate to 1 only when
\* it is unset; a net amount that is set, a net amount of 0 included (the
\* fees consume the whole amount), is persisted as it was given.
C33_DefaultsOnlyWhenUnset ==
  \A c \in EnteredOnce :
    LET supplied == Supplied(c)
        row == ledger[calls[c].returned]
    IN /\ row.netAmountInCollectiveCurrency =
            (IF NetAmountSet(c) THEN supplied.netAmountInCollectiveCurrency
             ELSE supplied.amount)
       /\ row.hostCurrencyFxRate =
            (IF supplied.hostCurrencyFxRate = NoRate THEN One
             ELSE supplied.hostCurrencyFxRate)

\* What a row was created with: its amounts, fees, parties and group
Entry(row) ==
  <<row.amount, row.den, row.netAmountInCollectiveCurrency,
    row.amountInHostCurrency, row.hostFeeInHostCurrency,
    row.platformFeeInHostCurrency, row.paymentProcessorFeeInHostCurrency,
    row.FromCollectiveId, row.CollectiveId, row.TransactionGroup>>

\* C34: the ledger is append-only.  Whatever createExpense, editExpense,
\* updateExpenseStatus, payExpense and markExpenseAsUnpaid do, every row that
\* was persisted is still there, in its place, with the amount, net amount,
\* fees, parties and TransactionGroup it was created with; a refund adds rows
\* and changes none of these.
C34_LedgerIsAppendOnly ==
  [][\A i \in 1..Len(ledger) :
       /\ i <= Len(ledger')
       /\ Entry(ledger'[i]) = Entry(ledger[i])]_vars

\* An expense was paid and marked as unpaid: its payment rows now name their
\* refunds, which were added after them
C34_Witness ==
  \E i \in Rows, j \in Rows :
    /\ i < j
    /\ ~ledger[i].isRefund
    /\ ledger[j].isRefund
    /\ ledger[i].RefundTransactionId = j
    /\ ledger[j].ExpenseId = ledger[i].ExpenseId

----------------------------------------------------------------------------
(* Properties of the fees of payExpense *)

\* The payExpense calls that have posted
PostedFees == {c \in CallIds : calls[c].op = "payExpense" /\ calls[c].pc = "posted"}

\* round(fxrate * fee)
Converted(fxrate, fee) == Round(fxrate[1] * fee, fxrate[2])

\* C35: each fee given or estimated in the currency of the collective
\* (payment processor, host, platform) is converted to the currency of the
\* host as round(fxrate * fee), a missing fee counting as 0, and these
\* converted values, no others, are handed to the posting.
C35_ConvertedFeesArePosted ==
  \A c \in PostedFees :
    /\ calls[c].posted.paymentProcessorFeeInHostCurrency
         = Converted(calls[c].fxrate, calls[c].estimated)
    /\ calls[c].posted.hostFeeInHostCurrency
         = Converted(calls[c].fxrate, calls[c].fees.hostFeeInCollectiveCurrency)
    /\ calls[c].posted.platformFeeInHostCurrency
         = Converted(calls[c].fxrate, calls[c].fees.platformFeeInCollectiveCurrency)

----------------------------------------------------------------------------
(* The rows of a fees-on-top split *)

\* The createFromPayload calls that have split a transaction and returned
SplitPayloads == {c \in SplitCalls : calls[c].op = "createFromPayload"}

\* The rows that call c has created, in the order of their creation
RowsOf(c) == {i \in Rows : ledger[i].TransactionGroup \in calls[c].groups}

\* The k-th row that call c has created
RowOf(c, k) ==
  ledger[CHOOSE i \in RowsOf(c) : Cardinality({j \in RowsOf(c) : j < i}) = k - 1]

\* Call c has created four rows in two groups: a pair for the donation, each
\* row without platform or host fee and with hostCurrencyFxRate 1, then a
\* pair for the main transaction without platform fee, each pair DEBIT first
DonationThenMain(c) ==
  /\ Cardinality(RowsOf(c)) = 4
  /\ Cardinality(calls[c].groups) = 2
  /\ RowOf(c, 1).TransactionGroup = RowOf(c, 2).TransactionGroup
  /\ RowOf(c, 3).TransactionGroup = RowOf(c, 4).TransactionGroup
  /\ RowOf(c, 1).TransactionGroup # RowOf(c, 3).TransactionGroup
  /\ \A k \in {1, 2} :
       /\ RowOf(c, k).platformFeeInHostCurrency = 0
       /\ RowOf(c, k).hostFeeInHostCurrency = 0
       /\ RowOf(c, k).hostCurrencyFxRate = One
       /\ PlatformCollectiveId \in {RowOf(c, k).CollectiveId, RowOf(c, k).FromCollectiveId}
  /\ \A k \in {3, 4} :
       /\ RowOf(c, k).platformFeeInHostCurrency = 0
       /\ PlatformCollectiveId \notin {RowOf(c, k).CollectiveId, RowOf(c, k).FromCollectiveId}
  /\ \A k \in {1, 3} :
       /\ RowOf(c, k).type = DEBIT
       /\ RowOf(c, k + 1).type = CREDIT

----------------------------------------------------------------------------
(* Properties of the PAID and PROCESSING statuses *)

\* The statuses that updateExpenseStatus may be asked for on a PAID expense
OtherThanPaid ==
  {statuses.PENDING, statuses.APPROVED, statuses.REJECTED, statuses.PROCESSING}

\* The outcome has refunded the expense: it has added rows to the ledger,
\* refunds of the expense, and has left the expense APPROVED
RefundedToApproved(outcome, id) ==
  /\ outcome.error = NoError
  /\ outcome.expenses[id].status = statuses.APPROVED
  /\ Len(outcome.ledger) > Len(ledger)
  /\ \A i \in Len(ledger) + 1..Len(outcome.ledger) :
       outcome.ledger[i].isRefund /\ outcome.ledger[i].ExpenseId = id

\* C37: once an expense is PAID, only a successful markExpenseAsUnpaid, which
\* creates a refund and sets APPROVED, changes its status: updateExpenseStatus
\* with target PENDING, APPROVED, REJECTED or PROCESSING, and payExpense, fail
\* on a PAID expense and leave it PAID.
C37_PaidLeftOnlyByRefund ==
  \A id \in DOMAIN expenses :
    expenses[id].status = statuses.PAID
    => /\ \A req \in Requests, status \in OtherThanPaid :
            Failed(updateExpenseStatusOutcome(req, id, status))
       /\ \A outcome \in PayOutcomes(id) : Failed(outcome)
       /\ \A outcome \in UnpayOutcomes(id) :
            outcome.expenses[id].status # statuses.PAID
            => RefundedToApproved(outcome, id)

\* The rows of the expense that are not refunds and are not refunded
UnrefundedRows(id) ==
  {i \in ExpenseRows(id) :
     ~ledger[i].isRefund /\ ledger[i].RefundTransactionId = NoRefund}

\* C38: in every state that createExpense, updateExpenseStatus, editExpense,
\* payExpense and markExpenseAsUnpaid reach, a PAID expense has an unrefunded
\* row of the ledger that carries its ExpenseId: nothing marks an expense
\* PAID without posting its ledger entry.
C38_PaidHasLedgerEntry ==
  \A id \in DOMAIN expenses :
    expenses[id].status = statuses.PAID => UnrefundedRows(id) # {}

----------------------------------------------------------------------------
(* Properties of an edit and a payment that run together *)

\* The amount that the unrefunded rows of the expense took from its
\* collective is the amount of the expense
PostedAmountIsStored(id) ==
  \A i \in UnrefundedRows(id) :
    ledger[i].CollectiveId = expenses[id].CollectiveId
    => ledger[i].amount = -expenses[id].amount

\* Request e has edited the APPROVED expense id, changing what asks for a
\* new approval, while request p was paying it, and both have ended without
\* error
EditedWhilePaid(e, p, id) ==
  /\ calls[e].op = "editExpense" /\ calls[e].pc = "done"
  /\ calls[e].id = id
  /\ calls[e].status = statuses.APPROVED
  /\ calls[e].changed
  /\ p \in calls[e].during
  /\ calls[p].op = "payExpense" /\ calls[p].pc = "done"

\* C39: however one editExpense that changes the amount, the items or the
\* payout method and one payExpense on the same APPROVED expense interleave,
\* once both have ended the expense is not PENDING or APPROVED with
\* unrefunded rows on the ledger, and it is not PAID or PROCESSING with an
\* amount that is not the amount posted.
C39_EditAndPaySerialized ==
  \A e \in CallIds, p \in CallIds, id \in DOMAIN expenses :
    EditedWhilePaid(e, p, id)
    => /\ expenses[id].status \in {statuses.PENDING, statuses.APPROVED}
            => UnrefundedRows(id) = {}
       /\ expenses[id].status \in {statuses.PAID, statuses.PROCESSING}
            => PostedAmountIsStored(id)

\* The outcome leaves the expense PROCESSING, which it was not
MovesToProcessing(outcome, id) ==
  /\ outcome.expenses[id].status = statuses.PROCESSING
  /\ expenses[id].status # statuses.PROCESSING

\* C40: an expense becomes PROCESSING only through a successful payExpense
\* of a bank transfer, without forceManual, on an APPROVED expense; nothing
\* else sets PROCESSING, updateExpenseStatus with target PROCESSING on a
\* PENDING, APPROVED or REJECTED expense least of all; and on a PROCESSING
\* expense updateExpenseStatus and payExpense fail and change nothing.
C40_ProcessingOnlyByBankTransfer ==
  \A id \in DOMAIN expenses :
    /\ \A req \in Requests, args \in PayArgs, env \in PayEnvs :
         MovesToProcessing(payExpenseOutcome(req, id, args, env), id)
         => /\ payExpenseOutcome(req, id, args, env).error = NoError
            /\ PayoutMethodTypeOf(expenses[id]) = PayoutMethodTypes.BANK_ACCOUNT
            /\ ~args.forceManual
            /\ expenses[id].status = statuses.APPROVED
    /\ \A outcome \in UpdateOutcomes(id) \cup EditOutcomes(id) \cup UnpayOutcomes(id) :
         ~MovesToProcessing(outcome, id)
    /\ expenses[id].status = statuses.PROCESSING
       => \A outcome \in UpdateOutcomes(id) \cup PayOutcomes(id) : Failed(outcome)

====
